---- MODULE Spec2Model ----
(***************************************************************************)
(* A model of the spread-analysis scripts:                                 *)
(*   - ContractHelper and generate_all_spreads                             *)
(*     (comprehensive_spread/2spread_list_generator_en.py),                *)
(*   - calculate_spread_prices (3calculate_spreads.py),                    *)
(*   - the loader, the alignment helpers and main                          *)
(*     (single_spread/normal/spread_calculator.py).                        *)
(* Strings are sequences of one-character strings, so that parsing and     *)
(* formatting are computed character by character.                         *)
(***************************************************************************)
EXTENDS Integers, Sequences, FiniteSets, TLC

VARIABLES
    pc,                 \* position of the generator/calculator pipeline
    existing_contracts, \* generate_all_spreads: the inventory (a list of codes)
    main_months,        \* generate_all_spreads: the main-month cycle
    generated,          \* what generate_all_spreads did: [raised, df]
    price_data,         \* calculate_spread_prices: the merged price table
    calculated,         \* what calculate_spread_prices did: [raised, result_df]
    helper,             \* a direct call of a ContractHelper method and its results
    formula,            \* main: the formula the user entered
    formula_vars,       \* main: the variables of the formula
    data_files,         \* main: variable -> the data file chosen for it
    time_offsets,       \* main: variable -> timezone offset in hours
    freq_input,         \* main: the resampling frequency the user entered
    window_size,        \* main: the window of the rolling correlation
    start_date,         \* main: start of the date range, "" when none
    end_date,           \* main: end of the date range, "" when none
    data_dict,          \* main: variable -> loaded series
    common_times,       \* main: the common timestamps, ascending
    aligned_data,       \* main: variable -> aligned series
    result_dfs,         \* main: variable -> the loader's result_df after the timezone step
    spread_run,         \* main: what the calculation step did
    direct_call         \* a direct call of a function of the spread scripts

mainvars == <<formula, formula_vars, data_files, time_offsets, freq_input,
              window_size, start_date, end_date, data_dict, common_times, aligned_data,
              result_dfs, spread_run>>

vars == <<pc, existing_contracts, main_months, generated, price_data, calculated,
          helper, mainvars, direct_call>>

(***************************************************************************)
(* Characters.                                                             *)
(***************************************************************************)
UpperCase == <<"A","B","C","D","E","F","G","H","I","J","K","L","M",
               "N","O","P","Q","R","S","T","U","V","W","X","Y","Z">>
LowerCase == <<"a","b","c","d","e","f","g","h","i","j","k","l","m",
               "n","o","p","q","r","s","t","u","v","w","x","y","z">>
DigitChars == <<"0","1","2","3","4","5","6","7","8","9">>

\* [A-Za-z]
IsLetter(ch) == \E i \in DOMAIN UpperCase : UpperCase[i] = ch \/ LowerCase[i] = ch

\* one of the digits 0-9
IsAsciiDigit(ch) == \E i \in DOMAIN DigitChars : DigitChars[i] = ch

\* Decimal digits outside ASCII. A character that a string literal cannot
\* hold is written as the token of its code point; the ARABIC-INDIC and the
\* FULLWIDTH digits stand for the decimal digits (category Nd) of all
\* scripts.
DigitTables ==
    <<DigitChars,
      <<"U+0660","U+0661","U+0662","U+0663","U+0664",
        "U+0665","U+0666","U+0667","U+0668","U+0669">>,
      <<"U+FF10","U+FF11","U+FF12","U+FF13","U+FF14",
        "U+FF15","U+FF16","U+FF17","U+FF18","U+FF19">> >>

\* \d of a str pattern: a decimal digit of any script
IsDigit(ch) == \E t \in DOMAIN DigitTables : \E i \in 1..10 : DigitTables[t][i] = ch

\* int() of one digit character
DigitValue(ch) ==
    (CHOOSE i \in 1..10 : \E t \in DOMAIN DigitTables : DigitTables[t][i] = ch) - 1

\* str.upper() on one character
UpperChar(ch) ==
    IF \E i \in DOMAIN LowerCase : LowerCase[i] = ch
    THEN UpperCase[CHOOSE i \in DOMAIN LowerCase : LowerCase[i] = ch]
    ELSE ch

\* str.upper()
upper(s) == [i \in DOMAIN s |-> UpperChar(s[i])]

\* int() of a string of digits
RECURSIVE int(_)
int(s) ==
    IF s = <<>> THEN 0
    ELSE 10 * int(SubSeq(s, 1, Len(s) - 1)) + DigitValue(s[Len(s)])

\* the decimal digits of a natural number, as str() writes them
RECURSIVE Digits(_)
Digits(n) ==
    IF n < 10 THEN <<DigitChars[n + 1]>>
    ELSE Digits(n \div 10) \o <<DigitChars[(n % 10) + 1]>>

\* the format specification :02d (sign-aware zero padding to width 2)
Format02d(n) ==
    IF n >= 0
    THEN IF n < 10 THEN <<"0">> \o Digits(n) ELSE Digits(n)
    ELSE <<"-">> \o Digits(-n)

(***************************************************************************)
(* ContractHelper.                                                         *)
(***************************************************************************)
\* what a method that raised ValueError produced
ValueError == [ok |-> FALSE]

\* re.match(r"^([A-Za-z]+)(\d{2})(\d{2})$", contract): "$" also matches just
\* before a newline that ends the string, so one trailing "\n" is not part
\* of what the groups must cover.
MatchedText(contract) ==
    IF Len(contract) > 0 /\ contract[Len(contract)] = "\n"
    THEN SubSeq(contract, 1, Len(contract) - 1)
    ELSE contract

IsMatch(contract) ==
    LET s == MatchedText(contract) IN
    /\ Len(s) >= 5
    /\ \A i \in 1..(Len(s) - 4) : IsLetter(s[i])
    /\ \A i \in (Len(s) - 3)..Len(s) : IsDigit(s[i])

parse_contract(contract) ==
    IF ~IsMatch(contract) THEN ValueError
    ELSE LET s == MatchedText(contract)
             n == Len(s)
         IN  [ok     |-> TRUE,
              symbol |-> upper(SubSeq(s, 1, n - 4)),
              year   |-> int(SubSeq(s, n - 3, n - 2)),
              month  |-> int(SubSeq(s, n - 1, n))]

\* a variant that does not zero-pad the month
format_contract_no_pad(symbol, year, month) ==
    symbol \o Format02d(year % 100) \o (IF month >= 0 THEN Digits(month) ELSE Format02d(month))

format_contract(symbol, year, month) ==
    symbol \o Format02d(year % 100) \o Format02d(month)

\* a variant that forgets that months count from 1
get_adjacent_month_off_by_one(year, month, offset) ==
    LET total_months == year * 12 + month + offset IN
    [year |-> total_months \div 12, month |-> (total_months % 12) + 1]

\* a variant whose division truncates towards zero
get_adjacent_month_trunc(year, month, offset) ==
    LET total_months == year * 12 + month - 1 + offset IN
    [year  |-> IF total_months < 0 THEN -((-total_months) \div 12)
               ELSE total_months \div 12,
     month |-> (total_months % 12) + 1]

get_adjacent_month(year, month, offset) ==
    LET total_months == year * 12 + month - 1 + offset IN
    [year |-> total_months \div 12, month |-> (total_months % 12) + 1]

\* sorted(main_months)
RECURSIVE sorted(_)
sorted(S) ==
    IF S = {} THEN <<>>
    ELSE LET m == CHOOSE x \in S : \A y \in S : x <= y
         IN  <<m>> \o sorted(S \ {m})

\* a variant that never moves to the next year
get_next_main_no_wrap(year, month, months) ==
    LET sorted_months == sorted(months)
        found == {i \in DOMAIN sorted_months : sorted_months[i] = month}
    IN  IF found = {} THEN ValueError
        ELSE LET current_idx == CHOOSE i \in found : \A j \in found : i <= j
                 next_idx == (current_idx % Len(sorted_months)) + 1
             IN  [ok |-> TRUE, year |-> year, month |-> sorted_months[next_idx]]

\* indices are 1-based here: (current_idx + 1) % len of the 0-based code is
\* (current_idx % len) + 1
get_next_main(year, month, months) ==
    LET sorted_months == sorted(months)
        found == {i \in DOMAIN sorted_months : sorted_months[i] = month}
    IN  IF found = {} THEN ValueError
        ELSE LET current_idx == CHOOSE i \in found : \A j \in found : i <= j
                 next_idx == (current_idx % Len(sorted_months)) + 1
                 next_month == sorted_months[next_idx]
             IN  [ok    |-> TRUE,
                  year  |-> year + (IF next_month < month THEN 1 ELSE 0),
                  month |-> next_month]

(***************************************************************************)
(* generate_all_spreads.                                                   *)
(***************************************************************************)
\* contract in existing_contracts (a list)
InList(contract, contracts) == \E i \in DOMAIN contracts : contracts[i] = contract

\* f"{contract_a}-{contract_b}"
spread_code(contract_a, contract_b) == contract_a \o <<"-">> \o contract_b

\* a variant that does not look at the month
IsMainContract_any_month(contract, months) == parse_contract(contract).ok

\* a variant without the try/except: a code that does not parse gets through
IsMainContract_no_except(contract, months) ==
    LET p == parse_contract(contract) IN ~p.ok \/ p.month \in months

\* the body of the first loop: a contract whose code does not parse is
\* skipped (except ValueError: continue)
IsMainContract(contract, months) ==
    LET p == parse_contract(contract) IN p.ok /\ p.month \in months

main_contracts(contracts, months) ==
    SelectSeq(contracts, LAMBDA c : IsMainContract(c, months))

\* the 7 candidate definitions of one main contract, <<spread_type,
\* contract_a, contract_b>>; ValueError when a helper call raised
spread_definitions(main_contract, months) ==
    LET p == parse_contract(main_contract) IN
    IF ~p.ok THEN ValueError
    ELSE
    LET nm == get_next_main(p.year, p.month, months) IN
    IF ~nm.ok THEN ValueError
    ELSE
    LET nnm == get_next_main(nm.year, nm.month, months) IN
    IF ~nnm.ok THEN ValueError
    ELSE
    LET symbol == p.symbol
        next_main == format_contract(symbol, nm.year, nm.month)
        next_next_main == format_contract(symbol, nnm.year, nnm.month)
        p1 == get_adjacent_month(p.year, p.month, -1)
        p2 == get_adjacent_month(p.year, p.month, -2)
        n1 == get_adjacent_month(p.year, p.month, 1)
        n2 == get_adjacent_month(p.year, p.month, 2)
        prev1 == format_contract(symbol, p1.year, p1.month)
        prev2 == format_contract(symbol, p2.year, p2.month)
        next1 == format_contract(symbol, n1.year, n1.month)
        next2 == format_contract(symbol, n2.year, n2.month)
        smp == get_adjacent_month(nm.year, nm.month, -1)
        sub_main_prev == format_contract(symbol, smp.year, smp.month)
    IN  [ok   |-> TRUE,
         defs |-> << <<"Main-SubMain", main_contract, next_main>>,
                     <<"Main-SubSubMain", main_contract, next_next_main>>,
                     <<"PrevMonth-Main", prev1, main_contract>>,
                     <<"Main-NextMonth", main_contract, next1>>,
                     <<"Main-NextNextMonth", main_contract, next2>>,
                     <<"Main-SubMainPrevMonth", main_contract, sub_main_prev>>,
                     <<"PrevPrevMonth-Main", prev2, main_contract>> >>]

\* a variant that looks up contract_a only
IsValidSpread_only_a(def, contracts) == InList(def[2], contracts)

\* step 5: the candidates both of whose contracts are in the inventory
IsValidSpread(def, contracts) ==
    InList(def[2], contracts) /\ InList(def[3], contracts)

SpreadRow(def, main_contract) ==
    [spread_type   |-> def[1],
     main_contract |-> main_contract,
     contract_a    |-> def[2],
     contract_b    |-> def[3],
     spread_code   |-> spread_code(def[2], def[3])]

valid_spreads(main_contract, contracts, months) ==
    LET defs == SelectSeq(spread_definitions(main_contract, months).defs,
                          LAMBDA d : IsValidSpread(d, contracts))
    IN  [i \in DOMAIN defs |-> SpreadRow(defs[i], main_contract)]

\* all_spreads after the second loop has handled mains[1..n]
RECURSIVE all_spreads(_, _, _, _)
all_spreads(mains, n, contracts, months) ==
    IF n = 0 THEN <<>>
    ELSE all_spreads(mains, n - 1, contracts, months)
         \o valid_spreads(mains[n], contracts, months)

\* df.drop_duplicates(subset=['spread_code', 'spread_type']): keep="first"
IsDuplicate(rows, i) ==
    \E j \in 1..(i - 1) :
        /\ rows[j].spread_code = rows[i].spread_code
        /\ rows[j].spread_type = rows[i].spread_type

RECURSIVE KeepFirst(_, _)
KeepFirst(rows, n) ==
    IF n = 0 THEN <<>>
    ELSE KeepFirst(rows, n - 1)
         \o (IF IsDuplicate(rows, n) THEN <<>> ELSE <<rows[n]>>)

\* a variant that drops nothing
drop_duplicates_none(rows) == rows

drop_duplicates(rows) == KeepFirst(rows, Len(rows))

\* the columns of the spread list, in the order of the keys of the rows
SpreadColumns ==
    <<"spread_type", "main_contract", "contract_a", "contract_b", "spread_code">>

\* a file that was not written
NoFile == [header |-> <<>>, lines |-> <<>>]

\* df.to_csv(output_file, index=False): a line of column names and a line
\* of fields per row. pd.DataFrame([]) has no columns, so the file of an
\* empty list has no column name at all.
to_csv(df) ==
    IF df = <<>> THEN NoFile
    ELSE [header |-> SpreadColumns,
          lines  |-> [i \in DOMAIN df |->
                         [k \in DOMAIN SpreadColumns |-> df[i][SpreadColumns[k]]]]]

\* the whole function: raised is TRUE when a ValueError left the second
\* loop, and then nothing was saved
generate_all_spreads(contracts, months) ==
    LET mains == main_contracts(contracts, months) IN
    IF \E i \in DOMAIN mains : ~spread_definitions(mains[i], months).ok
    THEN [raised |-> TRUE, df |-> <<>>, output_file |-> NoFile]
    ELSE LET df == drop_duplicates(all_spreads(mains, Len(mains), contracts, months))
         IN  [raised |-> FALSE, df |-> df, output_file |-> to_csv(df)]

(***************************************************************************)
(* calculate_spread_prices.                                                *)
(***************************************************************************)
\* the name of the timestamp column
TimestampColumn == <<"t","i","m","e","s","t","a","m","p">>

KeyError == [ok |-> FALSE]

\* price_data.columns: the timestamp column and the contract columns
HasColumn(table, name) == name = TimestampColumn \/ name \in DOMAIN table.data

\* price_data[name]
Column(table, name) ==
    IF name = TimestampColumn THEN [ok |-> TRUE, values |-> table.timestamp]
    ELSE IF name \in DOMAIN table.data THEN [ok |-> TRUE, values |-> table.data[name]]
    ELSE KeyError

\* a variant that subtracts the wrong way round
Subtract_reversed(a, b) == [i \in DOMAIN a |-> b[i] - a[i]]

\* price_data[contract_a] - price_data[contract_b]: both columns carry the
\* table's index, so the subtraction pairs the values of the same row
Subtract(a, b) == [i \in DOMAIN a |-> a[i] - b[i]]

\* result_df[name] = values: a new name is appended, an existing name keeps
\* its position and has its values replaced
AssignColumn(result, name, values) ==
    [columns |-> IF InList(name, result.columns) THEN result.columns
                 ELSE Append(result.columns, name),
     data    |-> [c \in DOMAIN result.data \cup {name} |->
                     IF c = name THEN values ELSE result.data[c]]]

\* the body of the loop over spreads_df for one row
ProcessSpread(acc, row, table) ==
    IF acc.raised THEN acc
    ELSE IF HasColumn(table, row.contract_a) /\ HasColumn(table, row.contract_b)
    THEN LET a == Column(table, row.contract_a)
             b == Column(table, row.contract_b)
         IN  IF a.ok /\ b.ok
             THEN [raised    |-> FALSE,
                   result_df |-> AssignColumn(acc.result_df, row.spread_code,
                                              Subtract(a.values, b.values))]
             ELSE [raised |-> TRUE, result_df |-> acc.result_df]
    ELSE acc

RECURSIVE ProcessSpreads(_, _, _)
ProcessSpreads(rows, n, table) ==
    IF n = 0
    THEN [raised    |-> FALSE,
          result_df |-> [columns |-> <<TimestampColumn>>,
                         data    |-> (TimestampColumn :> table.timestamp)]]
    ELSE ProcessSpread(ProcessSpreads(rows, n - 1, table), rows[n], table)

\* pandas.errors.EmptyDataError: no columns to parse from file
EmptyDataError == [ok |-> FALSE]

\* pd.read_csv(spreads_file): the rows of the file under its column names;
\* the fields of a spread list are texts with a letter and are read as texts
read_csv(file) ==
    IF file.header = <<>> THEN EmptyDataError
    ELSE [ok |-> TRUE,
          df |-> [i \in DOMAIN file.lines |->
                     [c \in {file.header[k] : k \in DOMAIN file.header} |->
                         file.lines[i][CHOOSE k \in DOMAIN file.header :
                                          file.header[k] = c]]]]

\* raised is TRUE when an exception left the function; result_df is then
\* not returned and nothing is written
calculate_spread_prices(spreads_file, table) ==
    LET spreads_df == read_csv(spreads_file) IN
    IF ~spreads_df.ok
    THEN [raised |-> TRUE, result_df |-> [columns |-> <<>>, data |-> <<>>]]
    ELSE ProcessSpreads(spreads_df.df, Len(spreads_df.df), table)

(***************************************************************************)
(* spread_calculator.py: the loader and the alignment helpers.             *)
(* A timestamp is a number of seconds since 2024-01-01 00:00; a cell that  *)
(* may be missing is <<>> (missing) or <<v>>.  A file is its extension and *)
(* its rows, each with the text of its datetime column and the value of    *)
(* its close column; a series is a sequence of rows [datetime, close].     *)
(***************************************************************************)
NaT == <<>>

NaN == <<>>

\* pd.to_datetime(text, errors='coerce') on the texts of the data files and
\* of the date prompts: a text that is not a date gives NaT
to_datetime(text) ==
    CASE text = "2024-01-01"       -> <<0>>
      [] text = "2024-01-01 23:00" -> <<82800>>
      [] text = "2024-01-01 23:05" -> <<83100>>
      [] text = "2024-01-02"       -> <<86400>>
      [] text = "2024-01-02 00:00" -> <<86400>>
      [] OTHER                     -> NaT

\* a variant that also drops the rows whose close is missing
dropna_any(df) == SelectSeq(df, LAMBDA r : r.datetime # NaT /\ r.close # NaN)

\* result_df.dropna(subset=['datetime'])
dropna(df) == SelectSeq(df, LAMBDA r : r.datetime # NaT)

\* load_market_data, and the copy of it inside main's loading loop, for a
\* file whose datetime and close columns are detected
load_market_data(file) ==
    IF file.ext \notin {".csv", ".feather"} THEN ValueError
    ELSE IF Len(file.rows) = 0 THEN ValueError
    ELSE
    LET df == [i \in DOMAIN file.rows |->
                  [datetime |-> to_datetime(file.rows[i].datetime),
                   close    |-> file.rows[i].close]]
    IN  IF \A i \in DOMAIN df : df[i].datetime = NaT THEN ValueError
        ELSE LET result_df == dropna(df)
             IN  [ok |-> TRUE,
                  df |-> [i \in DOMAIN result_df |->
                             [datetime |-> result_df[i].datetime[1],
                              close    |-> result_df[i].close]]]

\* the length of the resampling period in seconds
FreqSeconds(freq) ==
    CASE freq = "15min" -> 900
      [] freq = "1h"    -> 3600
      [] freq = "1d"    -> 86400

\* the close of the bucket that starts at b: the last close of the bucket
\* that is not missing. resample sorts the rows by time first, rows of
\* equal time staying in their order, so the last one is the latest in
\* time and, among those, the last in the frame.
LastClose(df, b, period) ==
    LET rows == {i \in DOMAIN df :
                    /\ (df[i].datetime \div period) * period = b
                    /\ df[i].close # NaN}
    IN  IF rows = {} THEN NaN
        ELSE df[CHOOSE i \in rows :
                   \A j \in rows :
                       \/ df[j].datetime < df[i].datetime
                       \/ df[j].datetime = df[i].datetime /\ j <= i].close

\* df.set_index('datetime').resample(freq).last().dropna().reset_index()
resample_data(df, freq) ==
    LET period  == FreqSeconds(freq)
        buckets == {(df[i].datetime \div period) * period : i \in DOMAIN df}
        kept    == sorted({b \in buckets : LastClose(df, b, period) # NaN})
    IN  [i \in DOMAIN kept |->
            [datetime |-> kept[i], close |-> LastClose(df, kept[i], period)]]

\* parse_formula: the upper-case letters of the formula
parse_formula(formula_str) ==
    {formula_str[i] : i \in {j \in DOMAIN formula_str :
                                \E k \in DOMAIN UpperCase : UpperCase[k] = formula_str[j]}}

\* the datetime column after df['datetime'] + timedelta(hours=hours_offset)
align_timezone(df, hours_offset) ==
    IF hours_offset = 0 THEN df
    ELSE [i \in DOMAIN df |->
             [df[i] EXCEPT !.datetime = @ + hours_offset * 3600]]

(***************************************************************************)
(* calculate_spread: eval(formula, {"__builtins__": {}}, local_vars) with  *)
(* local_vars[key] = df['close'].values, an array of float64.              *)
(* A number is a fraction <<n, d>> in lowest terms with d > 0; nan is NaN, *)
(* inf and -inf are <<1, 0>> and <<-1, 0>>, and -0.0 is <<0, -1>>.  A      *)
(* float is written as the fraction it is the nearest float of: a fraction *)
(* within 2^MaxExponent whose denominator is a power of two is that float  *)
(* exactly; of any other fraction only the rounding is known, and          *)
(* arithmetic on it gives Unknown.  A value is a Python int or float, a    *)
(* numpy scalar or a one-dimensional array.                                *)
(* The expressions modelled are made of names, decimal literals, the       *)
(* operators + - * / @, the signs + and -, parentheses, the attribute T    *)
(* and calls, with spaces between them.  For any other expression of       *)
(* Python, and for a value that is Unknown, eval is Unmodelled: the model  *)
(* does not say what the code does.                                        *)
(***************************************************************************)
SyntaxError == [ok |-> FALSE, error |-> "SyntaxError"]

NameError == [ok |-> FALSE, error |-> "NameError"]

TypeError == [ok |-> FALSE, error |-> "TypeError"]

ZeroDivisionError == [ok |-> FALSE, error |-> "ZeroDivisionError"]

\* operands could not be broadcast together / matmul dimension mismatch
ShapeError == [ok |-> FALSE, error |-> "ValueError"]

\* an outcome the model does not determine
Unmodelled == [modelled |-> FALSE]

MaxExponent == 14

\* a float the model does not determine
Unknown == <<0, 0>>

\* the zero or the infinity of a sign
Signed(what, negative) ==
    CASE what = "zero" -> IF negative THEN <<0, -1>> ELSE <<0, 1>>
      [] what = "inf"  -> IF negative THEN <<-1, 0>> ELSE <<1, 0>>

RECURSIVE Gcd(_, _)
Gcd(a, b) == IF b = 0 THEN a ELSE Gcd(b, a % b)

\* the fraction n/d, d # 0, in lowest terms
Fraction(n, d) ==
    LET abs(k) == IF k < 0 THEN -k ELSE k
        reduced(g) == IF d > 0 THEN <<n \div g, d \div g>>
                      ELSE <<(-n) \div g, (-d) \div g>>
    IN  reduced(Gcd(abs(n), abs(d)))

\* a finite number that a float, and the model, holds exactly
IsExact(x) ==
    /\ x[2] \in {2^k : k \in 0..MaxExponent}
    /\ x[1] <= 2^MaxExponent
    /\ -x[1] <= 2^MaxExponent

\* -x of a float
Neg(x) ==
    IF x = NaN \/ x = Unknown THEN x
    ELSE IF x[1] = 0 THEN Signed("zero", x[2] > 0)
    ELSE <<-x[1], x[2]>>

\* one arithmetic operator on two finite numbers, the divisor not zero
Arith(op, x, y) ==
    Fraction(CASE op = "+" -> x[1] * y[2] + y[1] * x[2]
               [] op = "-" -> x[1] * y[2] - y[1] * x[2]
               [] op = "*" -> x[1] * y[1]
               [] op = "/" -> x[1] * y[2],
             CASE op \in {"+", "-"} -> x[2] * y[2]
               [] op = "*"          -> x[2] * y[2]
               [] op = "/"          -> x[2] * y[1])

\* the operator on two floats as numpy computes it: nan when an operand is
\* nan, inf or nan (with a warning) for a division by zero, signed zeros
NumpyArith(op, x, y) ==
    LET negative(z) == z[1] < 0 \/ (z[1] = 0 /\ z[2] < 0)
        inf(z)      == z[2] = 0
        zero(z)     == z[1] = 0
        \* x + z, x * z or x / z when an operand is a zero or an infinity
        special(z, sign) ==
            CASE op \in {"+", "-"} ->
                    IF inf(x) /\ inf(z) THEN (IF x = z THEN x ELSE NaN)
                    ELSE IF inf(x) THEN x
                    ELSE IF inf(z) THEN z
                    ELSE IF zero(x) /\ zero(z)
                    THEN Signed("zero", x[2] < 0 /\ z[2] < 0)
                    ELSE IF zero(x) THEN z
                    ELSE IF zero(z) THEN x
                    ELSE Unknown
              [] op = "*" ->
                    IF (inf(x) /\ zero(z)) \/ (zero(x) /\ inf(z)) THEN NaN
                    ELSE IF inf(x) \/ inf(z) THEN Signed("inf", sign)
                    ELSE IF zero(x) \/ zero(z) THEN Signed("zero", sign)
                    ELSE Unknown
              [] op = "/" ->
                    IF (inf(x) /\ inf(z)) \/ (zero(x) /\ zero(z)) THEN NaN
                    ELSE IF inf(x) \/ zero(z) THEN Signed("inf", sign)
                    ELSE IF zero(x) \/ inf(z) THEN Signed("zero", sign)
                    ELSE Unknown
        finite(z, found) ==
            IF found # Unknown THEN found
            ELSE IF ~IsExact(x) \/ ~IsExact(z) THEN Unknown
            ELSE Arith(IF op = "-" THEN "+" ELSE op, x, z)
        result(z) == finite(z, special(z, negative(x) # negative(z)))
    IN  IF x = NaN \/ y = NaN THEN NaN
        ELSE IF x = Unknown \/ y = Unknown THEN Unknown
        ELSE result(IF op = "-" THEN Neg(y) ELSE y)

\* a scalar of type "int" or "float" (Python) or "np" (numpy.float64)
Scalar(x, type) ==
    [ok |-> TRUE, array |-> FALSE, np |-> type = "np", int |-> type = "int", v |-> x]

Array(cells) == [ok |-> TRUE, array |-> TRUE, np |-> TRUE, int |-> FALSE, v |-> cells]

\* df['close'].values
values(df) == Array([i \in DOMAIN df |->
                        IF df[i].close = NaN THEN NaN ELSE <<df[i].close[1], 1>>])

\* the sum of the products; the sign of a zero sum of products that are
\* -0.0 depends on how the sum is started
RECURSIVE DotSum(_, _, _)
DotSum(a, b, n) ==
    IF n = 0 THEN <<0, 1>>
    ELSE LET add(product) == IF product = <<0, -1>> THEN Unknown
                              ELSE NumpyArith("+", DotSum(a, b, n - 1), product)
         IN  add(NumpyArith("*", a[n], b[n]))

\* a @ b: only an array implements @, and it takes no scalar operand
MatMul(x, y) ==
    IF ~x.array /\ ~y.array THEN TypeError
    ELSE IF ~x.array \/ ~y.array THEN ShapeError
    ELSE IF Len(x.v) # Len(y.v) THEN ShapeError
    ELSE Scalar(DotSum(x.v, y.v, Len(x.v)), "np")

\* a variant that pairs the elements of equal-length arrays in reverse
Broadcast_reversed(op, a, b) ==
    IF Len(a) = Len(b)
    THEN Array([i \in DOMAIN a |-> NumpyArith(op, a[i], b[Len(b) + 1 - i])])
    ELSE ShapeError

\* numpy's broadcasting of two one-dimensional arrays: an array of length 1
\* is stretched to the length of the other
Broadcast(op, a, b) ==
    IF Len(a) = Len(b) \/ Len(a) = 1 \/ Len(b) = 1
    THEN Array([i \in 1..(IF Len(a) = 1 THEN Len(b) ELSE Len(a)) |->
                   NumpyArith(op, a[IF Len(a) = 1 THEN 1 ELSE i],
                                  b[IF Len(b) = 1 THEN 1 ELSE i])])
    ELSE ShapeError

\* x op y: the left operand is evaluated first, so its error comes first.
\* Two Python ints give an int for + - *; a division of Python numbers by
\* zero raises.
Binary(op, x, y) ==
    LET cells(z) == IF z.array THEN z.v ELSE <<z.v>>
        known(r) == IF ~r.ok THEN r
                    ELSE IF r.array /\ (\E i \in DOMAIN r.v : r.v[i] = Unknown)
                    THEN Unmodelled
                    ELSE IF ~r.array /\ r.v = Unknown THEN Unmodelled
                    ELSE r
        \* a scalar is broadcast like an array of one element
        arithmetic(number) ==
            IF x.array \/ y.array THEN number
            ELSE IF x.np \/ y.np THEN Scalar(number.v[1], "np")
            ELSE IF op = "/" /\ y.v[1] = 0 THEN ZeroDivisionError
            ELSE IF x.int /\ y.int /\ op # "/"
            THEN Scalar(IF IsExact(x.v) /\ IsExact(y.v)
                        THEN Arith(op, x.v, y.v) ELSE Unknown, "int")
            ELSE Scalar(number.v[1], "float")
    IN  IF x = Unmodelled THEN x
        ELSE IF ~x.ok THEN x
        ELSE IF y = Unmodelled THEN y
        ELSE IF ~y.ok THEN y
        ELSE IF op = "@" THEN known(MatMul(x, y))
        ELSE known(arithmetic(Broadcast(op, cells(x), cells(y))))

\* -x and +x; a Python int has no negative zero
Unary(op, x) ==
    IF x = Unmodelled THEN x
    ELSE IF ~x.ok \/ op = "+" THEN x
    ELSE IF x.array THEN Array([i \in DOMAIN x.v |-> Neg(x.v[i])])
    ELSE IF x.int THEN Scalar(<<-x.v[1], x.v[2]>>, "int")
    ELSE [x EXCEPT !.v = Neg(@)]

\* the first position from i on that is past the name (letters, digits and
\* underscores)
NameEnd(s, i) ==
    CHOOSE j \in i..(Len(s) + 1) :
        /\ \A k \in i..(j - 1) : IsLetter(s[k]) \/ IsAsciiDigit(s[k]) \/ s[k] = "_"
        /\ j = Len(s) + 1 \/ ~(IsLetter(s[j]) \/ IsAsciiDigit(s[j]) \/ s[j] = "_")

\* the first position from i on that is past the digits
DigitsEnd(s, i) ==
    CHOOSE j \in i..(Len(s) + 1) :
        /\ \A k \in i..(j - 1) : IsAsciiDigit(s[k])
        /\ j = Len(s) + 1 \/ ~IsAsciiDigit(s[j])

\* a decimal literal at position i: digits (an int), or digits with a point
\* (a float); an int literal with a leading zero is a syntax error unless it
\* is zero.  A literal that goes on with a letter or an underscore (0x10,
\* 1e3, 1j, 1_000) or has more than four digits is not modelled.
ParseNumber(s, i) ==
    LET e1    == DigitsEnd(s, i)
        point == e1 <= Len(s) /\ s[e1] = "."
        e2    == IF point THEN DigitsEnd(s, e1 + 1) ELSE e1
        whole == SubSeq(s, i, e1 - 1)
        frac  == IF point THEN SubSeq(s, e1 + 1, e2 - 1) ELSE <<>>
    IN  IF whole = <<>> /\ frac = <<>> THEN [outcome |-> "SyntaxError"]
        ELSE IF \/ e2 <= Len(s) /\ (IsLetter(s[e2]) \/ s[e2] = "_")
                \/ Len(whole) + Len(frac) > 4
        THEN [outcome |-> "Unmodelled"]
        ELSE IF ~point /\ Len(whole) > 1 /\ whole[1] = "0" /\ int(whole) # 0
        THEN [outcome |-> "SyntaxError"]
        ELSE [outcome |-> "",
              pos     |-> e2,
              val     |-> Scalar(Fraction(int(whole \o frac), 10^Len(frac)),
                                 IF point THEN "float" ELSE "int")]

\* the names that are not looked up in local_vars: the keywords, and the
\* two names the interpreter itself gives a value
ReservedNames ==
    {"False", "None", "True", "and", "as", "assert", "async", "await", "break",
     "class", "continue", "def", "del", "elif", "else", "except", "finally",
     "for", "from", "global", "if", "import", "in", "is", "lambda", "nonlocal",
     "not", "or", "pass", "raise", "return", "try", "while", "with", "yield",
     "__debug__", "__builtins__"}

\* a name: a key of local_vars, or NameError (there are no builtins); a
\* reserved name is not modelled
Lookup(name, local_vars) ==
    LET RECURSIVE text(_)
        text(chars) == IF chars = <<>> THEN ""
                       ELSE text(SubSeq(chars, 1, Len(chars) - 1)) \o chars[Len(chars)]
    IN  IF text(name) \in ReservedNames THEN Unmodelled
        ELSE IF text(name) \in DOMAIN local_vars THEN local_vars[text(name)]
        ELSE NameError

\* x.name: T of an array is the array; the other attributes of arrays and
\* numbers are not modelled
Attribute(x, name) ==
    IF x = Unmodelled THEN x
    ELSE IF ~x.ok THEN x
    ELSE IF name = <<"T">> /\ x.np THEN x
    ELSE Unmodelled

\* x(arguments), with no or one argument: the arguments are evaluated, and
\* neither a number nor an array can be called
Call(x, arguments) ==
    IF x = Unmodelled THEN x
    ELSE IF ~x.ok THEN x
    ELSE IF arguments = <<>> THEN TypeError
    ELSE IF arguments[1] = Unmodelled THEN Unmodelled
    ELSE IF ~arguments[1].ok THEN arguments[1]
    ELSE TypeError

\* The formula is read from left to right with a stack of values and a
\* stack of pending operators: "u+" and "u-" are the signs, "(" an open
\* parenthesis and "call" the open parenthesis of a call; open is TRUE
\* right after an open parenthesis.
Precedence(op) ==
    CASE op \in {"+", "-"}        -> 1
      [] op \in {"*", "/", "@"}   -> 2
      [] op \in {"u+", "u-"}      -> 3

Top(stack) == stack[Len(stack)]

Pop(stack, n) == SubSeq(stack, 1, Len(stack) - n)

\* the reading ends with a syntax error or outside the expressions modelled
Stop(st, outcome) == [st EXCEPT !.outcome = outcome, !.done = TRUE]

\* apply the operator on top of the operator stack
Reduce(st) ==
    LET op == Top(st.ops) IN
    IF op \in {"u+", "u-"}
    THEN [st EXCEPT !.ops  = Pop(@, 1),
                    !.vals = Append(Pop(@, 1), Unary(IF op = "u-" THEN "-" ELSE "+", Top(@)))]
    ELSE [st EXCEPT !.ops  = Pop(@, 1),
                    !.vals = Append(Pop(@, 2), Binary(op, @[Len(@) - 1], Top(@)))]

\* an operand is expected at position st.i, which is not a space
ReadOperand(s, st, local_vars) ==
    LET c    == s[st.i]
        next == IF st.i < Len(s) THEN s[st.i + 1] ELSE ""
    IN
    IF IsLetter(c) \/ c = "_"
    THEN LET e     == NameEnd(s, st.i)
             value == Lookup(SubSeq(s, st.i, e - 1), local_vars)
         IN  IF value = Unmodelled THEN Stop(st, "Unmodelled")
             ELSE [st EXCEPT !.i = e, !.operand = FALSE, !.open = FALSE,
                             !.vals = Append(@, value)]
    ELSE IF IsAsciiDigit(c) \/ (c = "." /\ IsAsciiDigit(next))
    THEN LET number == ParseNumber(s, st.i) IN
         IF number.outcome # "" THEN Stop(st, number.outcome)
         ELSE [st EXCEPT !.i = number.pos, !.operand = FALSE, !.open = FALSE,
                         !.vals = Append(@, number.val)]
    ELSE IF c \in {"+", "-"}
    THEN [st EXCEPT !.i = @ + 1, !.open = FALSE,
                    !.ops = Append(@, IF c = "-" THEN "u-" ELSE "u+")]
    ELSE IF c = "("
    THEN [st EXCEPT !.i = @ + 1, !.open = TRUE, !.ops = Append(@, "(")]
    ELSE IF c = ")" /\ st.open
    THEN IF Top(st.ops) = "call"
         THEN [st EXCEPT !.i = @ + 1, !.operand = FALSE, !.open = FALSE,
                         !.ops = Pop(@, 1),
                         !.vals = Append(Pop(@, 1), Call(Top(@), <<>>))]
         ELSE Stop(st, "Unmodelled")
    ELSE IF c = "*" \/ (c = "." /\ next = ".")
    THEN Stop(st, "Unmodelled")
    ELSE Stop(st, "SyntaxError")

\* an operator, a trailer or a closing parenthesis is expected at st.i,
\* which is not a space
ReadOperator(s, st) ==
    LET c    == s[st.i]
        next == IF st.i < Len(s) THEN s[st.i + 1] ELSE ""
    IN
    IF (c = "*" /\ next = "*") \/ (c = "/" /\ next = "/")
    THEN Stop(st, "Unmodelled")
    ELSE IF c \in {"+", "-", "*", "/", "@"}
    THEN IF /\ st.ops # <<>>
            /\ Top(st.ops) \notin {"(", "call"}
            /\ Precedence(Top(st.ops)) >= Precedence(c)
         THEN Reduce(st)
         ELSE [st EXCEPT !.i = @ + 1, !.operand = TRUE, !.open = FALSE,
                         !.ops = Append(@, c)]
    ELSE IF c = ")"
    THEN IF st.ops = <<>> THEN Stop(st, "SyntaxError")
         ELSE IF Top(st.ops) = "("
         THEN [st EXCEPT !.i = @ + 1, !.ops = Pop(@, 1)]
         ELSE IF Top(st.ops) = "call"
         THEN [st EXCEPT !.i = @ + 1, !.ops = Pop(@, 1),
                         !.vals = Append(Pop(@, 2), Call(@[Len(@) - 1], <<Top(@)>>))]
         ELSE Reduce(st)
    ELSE IF c = "("
    THEN [st EXCEPT !.i = @ + 1, !.operand = TRUE, !.open = TRUE,
                    !.ops = Append(@, "call")]
    ELSE IF c = "."
    THEN LET p == CHOOSE j \in (st.i + 1)..(Len(s) + 1) :
                      /\ \A k \in (st.i + 1)..(j - 1) : s[k] = " "
                      /\ j = Len(s) + 1 \/ s[j] # " "
         IN  IF p <= Len(s) /\ (IsLetter(s[p]) \/ s[p] = "_")
             THEN LET e    == NameEnd(s, p)
                      name == SubSeq(s, p, e - 1)
                  IN  IF Lookup(name, <<>>) = Unmodelled /\ name[1] # "_"
                      THEN Stop(st, "SyntaxError")
                      ELSE [st EXCEPT !.i = e,
                                      !.vals = Append(Pop(@, 1), Attribute(Top(@), name))]
             ELSE Stop(st, "SyntaxError")
    ELSE IF IsLetter(c) \/ c = "_"
    THEN LET name == SubSeq(s, st.i, NameEnd(s, st.i) - 1) IN
         Stop(st, IF Lookup(name, <<>>) = Unmodelled THEN "Unmodelled" ELSE "SyntaxError")
    ELSE Stop(st, "SyntaxError")

\* one step of the reading
Step(s, st, local_vars) ==
    IF st.i > Len(s)
    THEN IF st.operand THEN Stop(st, "SyntaxError")
         ELSE IF st.ops = <<>> THEN [st EXCEPT !.done = TRUE]
         ELSE IF Top(st.ops) \in {"(", "call"} THEN Stop(st, "SyntaxError")
         ELSE Reduce(st)
    ELSE IF s[st.i] = " " THEN [st EXCEPT !.i = @ + 1]
    ELSE IF st.operand THEN ReadOperand(s, st, local_vars)
    ELSE ReadOperator(s, st)

RECURSIVE Run(_, _, _)
Run(s, st, local_vars) ==
    IF st.done THEN st ELSE Run(s, Step(s, st, local_vars), local_vars)

\* the longest formula that is read; the limits of the compiler (200
\* nested parentheses, the depth of its recursion) lie beyond it
MaxFormulaLen == 64

\* eval(formula, {"__builtins__": {}}, local_vars): the whole text is
\* compiled first, so a syntax error comes before any error of evaluation
eval(formula_str, local_vars) ==
    IF Len(formula_str) > MaxFormulaLen THEN Unmodelled
    ELSE IF \E i \in DOMAIN formula_str :
          ~(\/ IsLetter(formula_str[i])
            \/ IsAsciiDigit(formula_str[i])
            \/ formula_str[i] \in {"_", ".", "+", "-", "*", "/", "@", "(", ")", " "})
    THEN Unmodelled
    ELSE LET end == Run(formula_str,
                        [i |-> 1, vals |-> <<>>, ops |-> <<>>, operand |-> TRUE,
                         open |-> FALSE, outcome |-> "", done |-> FALSE],
                        local_vars)
         IN  IF end.outcome = "Unmodelled" THEN Unmodelled
             ELSE IF end.outcome = "SyntaxError" THEN SyntaxError
             ELSE end.vals[1]

calculate_spread(dict, formula_str) ==
    eval(formula_str, [key \in DOMAIN dict |-> values(dict[key])])

\* the frame passed to align_timezone as it is after the call: the shift is
\* assigned to the datetime column of that same frame, which is returned
align_timezone_argument(df, hours_offset) ==
    IF hours_offset = 0 THEN df
    ELSE align_timezone(df, hours_offset)

\* set(df['datetime'])
Times(df) == {df[i].datetime : i \in DOMAIN df}

\* a variant that returns the timestamps of one series
find_common_timeframe_one(dict) ==
    IF DOMAIN dict = {} THEN <<>>
    ELSE sorted(Times(dict[CHOOSE k \in DOMAIN dict : TRUE]))

find_common_timeframe(dict) ==
    IF DOMAIN dict = {} THEN <<>>
    ELSE sorted({t \in UNION {Times(dict[k]) : k \in DOMAIN dict} :
                    \A k \in DOMAIN dict : t \in Times(dict[k])})

\* df[df['datetime'].isin(common_times)]
isin(df, times) == SelectSeq(df, LAMBDA r : InList(r.datetime, times))

\* a variant that ignores the end date
in_date_range_no_end(df, start, end) ==
    IF start # ""
    THEN SelectSeq(df, LAMBDA r : r.datetime >= to_datetime(start)[1])
    ELSE df

\* end_datetime.replace(hour=23, minute=59, second=59)
end_of_day(t) == (t \div 86400) * 86400 + 86399

\* the rows main keeps for the date range: from the start date on, and up to
\* 23:59:59 of the day of the end date
in_date_range(df, start, end) ==
    LET from == IF start # ""
                THEN SelectSeq(df, LAMBDA r : r.datetime >= to_datetime(start)[1])
                ELSE df
    IN  IF end # ""
        THEN SelectSeq(from, LAMBDA r : r.datetime <= end_of_day(to_datetime(end)[1]))
        ELSE from

\* a variant of the test before the calculation without the length test
can_calculate_empty(common, aligned, variables) ==
    \A var \in variables : var \in DOMAIN aligned

\* a variant of the test before the calculation without the variables test
can_calculate_missing(common, aligned, variables) == Len(common) > 0

\* len(common_times) > 0 and all(var in aligned_data for var in variables)
can_calculate(common, aligned, variables) ==
    /\ Len(common) > 0
    /\ \A var \in variables : var \in DOMAIN aligned

\* the rows of right_df stamped t, in their order, each as the row left
\* with the close of var added; left itself with a missing close when none
MergeRow(left, right_df, var) ==
    LET matches == SelectSeq(right_df, LAMBDA m : m.datetime = left.datetime) IN
    IF matches = <<>>
    THEN << [left EXCEPT !.close = @ @@ (var :> NaN)] >>
    ELSE [k \in DOMAIN matches |->
             [left EXCEPT !.close = @ @@ (var :> matches[k].close)]]

\* result_df.merge(temp_df, on='datetime', how='left') and the renaming of
\* close to close_<var>: the column close_<var> is close[var] of the row
RECURSIVE LeftMerge(_, _, _, _)
LeftMerge(left_df, n, right_df, var) ==
    IF n = 0 THEN <<>>
    ELSE LeftMerge(left_df, n - 1, right_df, var) \o MergeRow(left_df[n], right_df, var)

\* result_df after the merges of the variables order[1..n]
RECURSIVE MergeAll(_, _, _, _)
MergeAll(common, aligned, order, n) ==
    IF n = 0 THEN [i \in DOMAIN common |-> [datetime |-> common[i], close |-> <<>>]]
    ELSE LET merged == MergeAll(common, aligned, order, n - 1) IN
         LeftMerge(merged, Len(merged), aligned[order[n]], order[n])

\* result_df['spread'] = spreads: a scalar goes to every row, an array must
\* have the length of the table
AssignSpread(table, spreads) ==
    IF ~spreads.array
    THEN [ok |-> TRUE,
          df |-> [i \in DOMAIN table |->
                     [datetime |-> table[i].datetime, close |-> table[i].close,
                      spread |-> spreads.v]]]
    ELSE IF Len(spreads.v) # Len(table) THEN ValueError
    ELSE [ok |-> TRUE,
          df |-> [i \in DOMAIN table |->
                     [datetime |-> table[i].datetime, close |-> table[i].close,
                      spread |-> spreads.v[i]]]]

\* calculate_rolling_correlation(df, variables, window_size): None when
\* there are fewer than two variables, a close column of the first two
\* variables is missing or the table is shorter than the window; rolling()
\* raises ValueError for a negative window.  The correlations themselves
\* are floats the model does not determine, and a window of 0 is not
\* modelled.
calculate_rolling_correlation(df, variables, window) ==
    LET None     == [ok |-> TRUE, none |-> TRUE]
        rank(v)  == CHOOSE k \in DOMAIN UpperCase : UpperCase[k] = v
        least(S) == CHOOSE v \in S : \A w \in S : rank(v) <= rank(w)
        var1     == least(variables)
        var2     == least(variables \ {var1})
    IN  IF Cardinality(variables) < 2 THEN None
        ELSE IF \E i \in DOMAIN df : {var1, var2} \ DOMAIN df[i].close # {} THEN None
        ELSE IF Len(df) < window THEN None
        ELSE IF window < 0 THEN ValueError
        ELSE IF window = 0 THEN Unmodelled
        ELSE [ok |-> TRUE, none |-> FALSE, v |-> [i \in DOMAIN df |-> Unknown]]

\* the calculation step of main, the variables being merged in the order
\* given: the table is saved when calculate_spread, the assignment of its
\* result and the rolling correlation raised nothing; with two variables
\* or more the column rolling_corr is added unless the correlation is None
calculate_and_save(common, aligned, formula_str, order, variables, window) ==
    LET failed == [called |-> TRUE, raised |-> TRUE, saved |-> FALSE, table |-> <<>>]
        saved(df) == [called |-> TRUE, raised |-> FALSE, saved |-> TRUE, table |-> df]
        correlate(df, rolling_corr) ==
            IF rolling_corr = Unmodelled THEN rolling_corr
            ELSE IF ~rolling_corr.ok THEN failed
            ELSE IF rolling_corr.none THEN saved(df)
            ELSE saved([i \in DOMAIN df |->
                           [datetime |-> df[i].datetime, close |-> df[i].close,
                            spread |-> df[i].spread,
                            rolling_corr |-> rolling_corr.v[i]]])
        save(assigned) ==
            IF ~assigned.ok THEN failed
            ELSE IF Cardinality(variables) < 2 THEN saved(assigned.df)
            ELSE correlate(assigned.df,
                           calculate_rolling_correlation(assigned.df, variables, window))
        assign(table, spreads) ==
            IF spreads = Unmodelled THEN spreads
            ELSE IF ~spreads.ok THEN failed
            ELSE save(AssignSpread(table, spreads))
    IN  assign(MergeAll(common, aligned, order, Len(order)),
               calculate_spread(aligned, formula_str))

\* goldspread.py, filter_by_date_range: both bounds are kept; an empty
\* result raises ValueError
filter_by_date_range(df, start, end) ==
    LET from == IF start # ""
                THEN SelectSeq(df, LAMBDA r : r.datetime >= to_datetime(start)[1])
                ELSE df
        kept == IF end # ""
                THEN SelectSeq(from, LAMBDA r : r.datetime <= to_datetime(end)[1])
                ELSE from
    IN  IF Len(kept) = 0 THEN ValueError ELSE [ok |-> TRUE, df |-> kept]

(***************************************************************************)
(* Inputs.                                                                 *)
(***************************************************************************)
MaxInventory == 3
MaxCodeLen == 6
MaxOffset == 25
MaxYear == 2
MaxMainMonths == 3

Range(seq) == {seq[i] : i \in DOMAIN seq}

SeqsUpTo(S, n) == UNION {[1..k -> S] : k \in 0..n}

I9911 == <<"I","9","9","1","1">>
I9912 == <<"I","9","9","1","2">>
I0001 == <<"I","0","0","0","1">>
I0002 == <<"I","0","0","0","2">>
i0001 == <<"i","0","0","0","1">>
I001  == <<"I","0","0","1">>
I2409 == <<"I","2","4","0","9">>
I2410 == <<"I","2","4","1","0">>
I2411 == <<"I","2","4","1","1">>
I2412 == <<"I","2","4","1","2">>
I2501 == <<"I","2","5","0","1">>
I2505 == <<"I","2","5","0","5">>
I2509 == <<"I","2","5","0","9">>

\* contract codes around the turn of a century, one in lower case and one
\* that is malformed
ContractUniverse == {I9911, I9912, I0001, I0002, i0001, I001}

Inventories == SeqsUpTo(ContractUniverse, MaxInventory)

MonthPool == {1, 2, 12}

MainMonthSets == SUBSET MonthPool

\* the example contract list of the generator's entry point
ExampleContracts ==
    <<I2409, I2410, I2411, I2412, I2501,
      <<"I","2","5","0","2">>, <<"I","2","5","0","3">>, <<"I","2","5","0","4">>,
      I2505,
      <<"I","2","5","0","6">>, <<"I","2","5","0","7">>, <<"I","2","5","0","8">>,
      I2509>>

\* an inventory of that list without the months between the main months,
\* and the cycle of the entry point
ScenarioContracts == <<I2409, I2410, I2411, I2412, I2501, I2505, I2509>>

ScenarioMainMonths == {1, 5, 9}

Timestamps == <<1, 2>>

PriceSeriesSet == {<<10, 11>>, <<8, 9>>}

\* the price tables tried for an inventory: a column for every contract of
\* the inventory, or for every contract but one
ColumnSets(contracts) ==
    {Range(contracts)} \cup {Range(contracts) \ {c} : c \in Range(contracts)}

PriceTables(contracts) ==
    {[timestamp |-> Timestamps, data |-> d] :
        d \in UNION {[cols -> PriceSeriesSet] : cols \in ColumnSets(contracts)}}

\* a table with the two main contracts I2501 and I2505 only
ExampleTable ==
    [timestamp |-> Timestamps,
     data      |-> (I2501 :> <<10, 11>>) @@ (I2505 :> <<8, 9>>)]

\* a table with a column for every contract of the inventory
FullTable(contracts) ==
    [timestamp |-> Timestamps,
     data      |-> [c \in Range(contracts) |->
                       IF parse_contract(c).month % 2 = 1 THEN <<10, 11>> ELSE <<8, 9>>]]

\* the price tables tried for an inventory
PriceTablesFor(contracts) ==
    IF contracts = ExampleContracts
    THEN {FullTable(contracts), ExampleTable}
    ELSE PriceTables(contracts) \cup {ExampleTable}

CodeAlphabet == {"I", "z", "0", "1", "9", "U+0661", "\n"}

CodeStrings == SeqsUpTo(CodeAlphabet, MaxCodeLen)

TestYears == (-MaxYear..MaxYear) \cup {24, 99, 2024}

TestMonthSets == {S \in SUBSET (1..12) : Cardinality(S) <= MaxMainMonths}

MaxRows == 2

\* rows of a data file: two instants one hour apart on either side of
\* midnight, one five minutes after the first, a missing close and a
\* datetime text that is not a date
RowChoices ==
    {[datetime |-> "2024-01-01 23:00", close |-> <<1>>],
     [datetime |-> "2024-01-01 23:00", close |-> NaN],
     [datetime |-> "2024-01-01 23:05", close |-> <<4>>],
     [datetime |-> "2024-01-02 00:00", close |-> <<2>>],
     [datetime |-> "n/a",              close |-> <<3>>]}

\* .csv files of up to MaxRows rows, and a file of an unsupported format
DataFiles ==
    {[ext |-> ".csv", rows |-> rows] : rows \in SeqsUpTo(RowChoices, MaxRows)}
    \cup {[ext |-> ".xls", rows |-> <<>>]}

Formulas == {<<"A">>, <<"A", "-", "B">>}

OffsetChoices == {0, 1}

FreqChoices == {"15min"}

\* the window size after the prompt: 20 when nothing or no integer was
\* entered, else the integer
WindowChoices == {20, 2, -1}

StartDates == {"", "2024-01-02"}

EndDates == {"", "2024-01-01"}

MaxArrayLen == 3

\* the close column of a series given to calculate_spread directly
CloseChoices == {<<1>>, <<2>>, NaN}

\* a series with the closes given, stamped 1, 2, ...
SeriesOf(closes) == [i \in DOMAIN closes |-> [datetime |-> i, close |-> closes[i]]]

CallSeries == {SeriesOf(closes) : closes \in SeqsUpTo(CloseChoices, MaxArrayLen)}

\* the data of the two examples of the formula evaluator
ExamplePair ==
    ("A" :> SeriesOf(<< <<1>>, <<2>>, <<3>> >>)) @@ ("B" :> SeriesOf(<< <<4>>, <<5>>, <<6>> >>))

ExampleSingle == "A" :> SeriesOf(<< <<2>> >>)

CallData ==
    [{"A"} -> CallSeries] \cup [{"A", "B"} -> CallSeries] \cup {ExamplePair, ExampleSingle}

\* arithmetic formulas, formulas with an operator, an attribute or a call
\* that is not arithmetic, and formulas that do not evaluate
CallFormulas ==
    {<<"A", "-", "B">>, <<"2", "*", "A">>, <<"A", "+", "B", "*", "2">>,
     <<"(", "A", "+", "B", ")", "*", "2">>, <<"A", "-", "2", ".", "5", "*", "B">>,
     <<"A", "/", "2">>, <<"-", "A", "/", "B">>, <<"A", "-", "B", "-", "A">>,
     <<"A", "@", "B">>, <<"A", ".", "T">>, <<"A", "(", "B", ")">>,
     <<"A", "-">>, <<"A", "-", "C">>, <<"0", "2", "*", "A">>,
     <<"A", " ", "-", " ", "B">>, <<"1", "/", "(", "A", "/", "0", ")">>}

\* series given to the date filters directly
FilterSeries ==
    SeqsUpTo({[datetime |-> t, close |-> <<1>>] : t \in {0, 82800, 86400, 90000}}, MaxRows)

FilterDates == {"", "2024-01-01", "2024-01-01 23:00", "2024-01-02"}

(***************************************************************************)
(* The generator / calculator pipeline.                                    *)
(***************************************************************************)
NotRun == [raised |-> FALSE]

NoTable == [timestamp |-> <<>>, data |-> <<>>]

\* main of spread_calculator.py is not running
\* the calculation step has not run
NotCalculated == [called |-> FALSE, raised |-> FALSE, saved |-> FALSE, table |-> <<>>]

MainIdle ==
    /\ result_dfs = <<>>
    /\ spread_run = NotCalculated
    /\ formula = <<>>
    /\ formula_vars = {}
    /\ data_files = <<>>
    /\ time_offsets = <<>>
    /\ freq_input = ""
    /\ window_size = 20
    /\ start_date = ""
    /\ end_date = ""
    /\ data_dict = <<>>
    /\ common_times = <<>>
    /\ aligned_data = <<>>

Init ==
    /\ pc = "start"
    /\ \/ existing_contracts \in Inventories /\ main_months \in MainMonthSets
       \/ /\ existing_contracts \in {ScenarioContracts, ExampleContracts}
          /\ main_months = ScenarioMainMonths
    /\ generated = NotRun
    /\ price_data = NoTable
    /\ calculated = NotRun
    /\ helper = [pc |-> "unused"]
    /\ MainIdle
    /\ direct_call = [pc |-> "unused"]

GenerateAllSpreads ==
    /\ pc = "start"
    /\ generated' = generate_all_spreads(existing_contracts, main_months)
    /\ pc' = "generated"
    /\ UNCHANGED <<existing_contracts, main_months, price_data, calculated, helper, mainvars, direct_call>>

\* the spread list is the one the generator saved
CalculateSpreadPrices ==
    /\ pc = "generated"
    /\ ~generated.raised
    /\ \E table \in PriceTablesFor(existing_contracts) :
        /\ price_data' = table
        /\ calculated' = calculate_spread_prices(generated.output_file, table)
    /\ pc' = "calculated"
    /\ UNCHANGED <<existing_contracts, main_months, generated, helper, mainvars, direct_call>>

Next == GenerateAllSpreads \/ CalculateSpreadPrices

Spec == Init /\ [][Next]_vars

(***************************************************************************)
(* Direct calls of the ContractHelper methods.                             *)
(***************************************************************************)
InitContract ==
    /\ pc = "unused"
    /\ existing_contracts = <<>>
    /\ main_months = {}
    /\ generated = NotRun
    /\ price_data = NoTable
    /\ calculated = NotRun
    /\ helper = [pc |-> "idle"]
    /\ MainIdle
    /\ direct_call = [pc |-> "unused"]

ParseContract ==
    /\ helper.pc = "idle"
    /\ \E c \in CodeStrings :
        helper' = [pc |-> "parsed", contract |-> c, parsed |-> parse_contract(c)]
    /\ UNCHANGED <<pc, existing_contracts, main_months, generated, price_data, calculated, mainvars, direct_call>>

FormatContract ==
    /\ helper.pc = "parsed"
    /\ helper.parsed.ok
    /\ helper' = [pc        |-> "formatted",
                  contract  |-> helper.contract,
                  parsed    |-> helper.parsed,
                  formatted |-> format_contract(helper.parsed.symbol,
                                                helper.parsed.year,
                                                helper.parsed.month)]
    /\ UNCHANGED <<pc, existing_contracts, main_months, generated, price_data, calculated, mainvars, direct_call>>

ReparseContract ==
    /\ helper.pc = "formatted"
    /\ helper' = [pc        |-> "reparsed",
                  contract  |-> helper.contract,
                  parsed    |-> helper.parsed,
                  formatted |-> helper.formatted,
                  reparsed  |-> parse_contract(helper.formatted)]
    /\ UNCHANGED <<pc, existing_contracts, main_months, generated, price_data, calculated, mainvars, direct_call>>

GetAdjacentMonth ==
    /\ helper.pc = "idle"
    /\ \E y \in TestYears, m \in 1..12, k \in (-MaxOffset)..MaxOffset :
        helper' = [pc      |-> "shifted",
                   year    |-> y,
                   month   |-> m,
                   offset  |-> k,
                   shifted |-> get_adjacent_month(y, m, k)]
    /\ UNCHANGED <<pc, existing_contracts, main_months, generated, price_data, calculated, mainvars, direct_call>>

GetAdjacentMonthBack ==
    /\ helper.pc = "shifted"
    /\ helper' = [pc      |-> "shifted_back",
                  year    |-> helper.year,
                  month   |-> helper.month,
                  offset  |-> helper.offset,
                  shifted |-> helper.shifted,
                  back    |-> get_adjacent_month(helper.shifted.year,
                                                 helper.shifted.month,
                                                 -helper.offset)]
    /\ UNCHANGED <<pc, existing_contracts, main_months, generated, price_data, calculated, mainvars, direct_call>>

GetNextMain ==
    /\ helper.pc = "idle"
    /\ \E y \in TestYears, m \in 1..12, months \in TestMonthSets :
        helper' = [pc     |-> "next_main",
                   year   |-> y,
                   month  |-> m,
                   months |-> months,
                   next   |-> get_next_main(y, m, months)]
    /\ UNCHANGED <<pc, existing_contracts, main_months, generated, price_data, calculated, mainvars, direct_call>>

NextContract ==
    \/ ParseContract
    \/ FormatContract
    \/ ReparseContract
    \/ GetAdjacentMonth
    \/ GetAdjacentMonthBack
    \/ GetNextMain

SpecContract == InitContract /\ [][NextContract]_vars

(***************************************************************************)
(* main of spread_calculator.py, from the end of the prompts on.           *)
(***************************************************************************)
InitMain ==
    /\ pc = "main"
    /\ existing_contracts = <<>>
    /\ main_months = {}
    /\ generated = NotRun
    /\ price_data = NoTable
    /\ calculated = NotRun
    /\ helper = [pc |-> "unused"]
    /\ direct_call = [pc |-> "unused"]
    /\ result_dfs = <<>>
    /\ spread_run = NotCalculated
    /\ formula \in Formulas
    /\ formula_vars = parse_formula(formula)
    /\ data_files \in [formula_vars -> DataFiles]
    /\ time_offsets \in [formula_vars -> OffsetChoices]
    /\ freq_input \in FreqChoices
    /\ window_size \in WindowChoices
    /\ start_date \in StartDates
    /\ end_date \in EndDates
    \* a window other than the default is tried on one file for every
    \* variable, without offsets and date range
    /\ window_size # 20 =>
          /\ start_date = "" /\ end_date = ""
          /\ \A var \in formula_vars : time_offsets[var] = 0
          /\ \A var, other \in formula_vars : data_files[var] = data_files[other]
    /\ data_dict = <<>>
    /\ common_times = <<>>
    /\ aligned_data = <<>>

genvars == <<existing_contracts, main_months, generated, price_data, calculated, helper,
             direct_call>>

promptvars == <<formula, formula_vars, data_files, time_offsets, freq_input,
                window_size, start_date, end_date>>

\* the loading loop: a variable whose file fails to load is left out of
\* data_dict; main returns when no variable was loaded
MainLoad ==
    /\ pc = "main"
    /\ LET loaded == {var \in formula_vars : load_market_data(data_files[var]).ok}
       IN  /\ data_dict' = [var \in loaded |->
                               align_timezone(load_market_data(data_files[var]).df,
                                              time_offsets[var])]
           /\ result_dfs' = [var \in loaded |->
                                align_timezone_argument(load_market_data(data_files[var]).df,
                                                        time_offsets[var])]
           /\ pc' = IF loaded = {} THEN "returned" ELSE "loaded"
    /\ UNCHANGED <<genvars, promptvars, common_times, aligned_data, spread_run>>

\* the common timestamps and the first alignment; main returns when there
\* is no common timestamp
MainAlign ==
    /\ pc = "loaded"
    /\ LET common == find_common_timeframe(data_dict)
       IN  /\ common_times' = common
           /\ IF Len(common) = 0
              THEN pc' = "returned" /\ UNCHANGED aligned_data
              ELSE /\ pc' = "aligned"
                   /\ aligned_data' = [var \in DOMAIN data_dict |->
                                          isin(data_dict[var], common)]
    /\ UNCHANGED <<genvars, promptvars, data_dict, result_dfs, spread_run>>

\* the date range, when one was entered: filter, find the common timestamps
\* again, align again
MainDateRange ==
    /\ pc = "aligned"
    /\ IF start_date # "" \/ end_date # ""
       THEN LET filtered == [var \in DOMAIN aligned_data |->
                                in_date_range(aligned_data[var], start_date, end_date)]
                common   == find_common_timeframe(filtered)
            IN  /\ common_times' = common
                /\ aligned_data' = [var \in DOMAIN filtered |->
                                       isin(filtered[var], common)]
       ELSE UNCHANGED <<common_times, aligned_data>>
    /\ pc' = "ranged"
    /\ UNCHANGED <<genvars, promptvars, data_dict, result_dfs, spread_run>>

\* the orders in which "for var in variables" may go through the set
Orders(variables) ==
    {order \in [1..Cardinality(variables) -> variables] :
        \A i, j \in DOMAIN order : order[i] = order[j] => i = j}

\* the calculation: skipped when there is no common timestamp or a variable
\* of the formula has no data
MainCalculate ==
    /\ pc = "ranged"
    /\ IF can_calculate(common_times, aligned_data, formula_vars)
       THEN \E order \in Orders(formula_vars) :
               spread_run' = calculate_and_save(common_times, aligned_data, formula,
                                                order, formula_vars, window_size)
       ELSE spread_run' = NotCalculated
    /\ pc' = "done"
    /\ UNCHANGED <<genvars, promptvars, data_dict, result_dfs, common_times, aligned_data>>

NextMain == MainLoad \/ MainAlign \/ MainDateRange \/ MainCalculate

SpecMain == InitMain /\ [][NextMain]_vars

(***************************************************************************)
(* Direct calls of calculate_spread and of the date filters.               *)
(***************************************************************************)
InitCalls ==
    /\ pc = "unused"
    /\ existing_contracts = <<>>
    /\ main_months = {}
    /\ generated = NotRun
    /\ price_data = NoTable
    /\ calculated = NotRun
    /\ helper = [pc |-> "unused"]
    /\ MainIdle
    /\ direct_call = [pc |-> "idle"]

CalculateSpread ==
    /\ direct_call.pc = "idle"
    /\ \E dict \in CallData, f \in CallFormulas :
          direct_call' = [pc      |-> "evaluated",
                          data    |-> dict,
                          formula |-> f,
                          result  |-> calculate_spread(dict, f)]
    /\ UNCHANGED <<pc, existing_contracts, main_months, generated, price_data,
                   calculated, helper, mainvars>>

\* the date filter of main, on one series
MainDateFilter ==
    /\ direct_call.pc = "idle"
    /\ \E df \in FilterSeries, start \in FilterDates, end \in FilterDates :
          direct_call' = [pc     |-> "filtered",
                          by     |-> "main",
                          df     |-> df,
                          start  |-> start,
                          end    |-> end,
                          result |-> [ok |-> TRUE, df |-> in_date_range(df, start, end)]]
    /\ UNCHANGED <<pc, existing_contracts, main_months, generated, price_data,
                   calculated, helper, mainvars>>

FilterByDateRange ==
    /\ direct_call.pc = "idle"
    /\ \E df \in FilterSeries, start \in FilterDates, end \in FilterDates :
          direct_call' = [pc     |-> "filtered",
                          by     |-> "goldspread",
                          df     |-> df,
                          start  |-> start,
                          end    |-> end,
                          result |-> filter_by_date_range(df, start, end)]
    /\ UNCHANGED <<pc, existing_contracts, main_months, generated, price_data,
                   calculated, helper, mainvars>>

NextCalls == CalculateSpread \/ MainDateFilter \/ FilterByDateRange

SpecCalls == InitCalls /\ [][NextCalls]_vars

(***************************************************************************)
(* The statements checked, in the specification's own terms.               *)
(***************************************************************************)
Min(S) == CHOOSE x \in S : \A y \in S : x <= y

\* a number of 0..99 written with two digits
TwoDigits(n) == <<DigitChars[(n \div 10) + 1], DigitChars[(n % 10) + 1]>>

\* the canonical string form: symbol + 2-digit year + 2-digit month
CanonicalCode(symbol, year, month) ==
    symbol \o TwoDigits(year % 100) \o TwoDigits(month)

\* the contract k calendar months after (year, month)
ShiftedCode(symbol, year, month, k) ==
    LET total == year * 12 + (month - 1) + k IN
    CanonicalCode(symbol, total \div 12, (total % 12) + 1)

\* the cyclically-next main month after month
CyclicNext(month, months) ==
    IF \E x \in months : x > month
    THEN Min({x \in months : x > month})
    ELSE Min(months)

\* the year of the cyclically-next main month
CyclicNextYear(year, month, months) ==
    IF CyclicNext(month, months) < month THEN year + 1 ELSE year

\* the 7 rows of the pairing table for the main contract c
PairingTable(c, months) ==
    LET p   == parse_contract(c)
        s   == p.symbol
        y   == p.year
        m   == p.month
        nm  == CyclicNext(m, months)
        ny  == CyclicNextYear(y, m, months)
        nnm == CyclicNext(nm, months)
        nny == CyclicNextYear(ny, nm, months)
    IN  { <<"Main-SubMain", c, CanonicalCode(s, ny, nm)>>,
          <<"Main-SubSubMain", c, CanonicalCode(s, nny, nnm)>>,
          <<"PrevMonth-Main", ShiftedCode(s, y, m, -1), c>>,
          <<"Main-NextMonth", c, ShiftedCode(s, y, m, 1)>>,
          <<"Main-NextNextMonth", c, ShiftedCode(s, y, m, 2)>>,
          <<"Main-SubMainPrevMonth", c, ShiftedCode(s, ny, nm, -1)>>,
          <<"PrevPrevMonth-Main", ShiftedCode(s, y, m, -2), c>> }

MainsOf(contracts, months) ==
    {c \in Range(contracts) : parse_contract(c).ok /\ parse_contract(c).month \in months}

ExpectedTriples(contracts, months) ==
    {t \in UNION {PairingTable(c, months) : c \in MainsOf(contracts, months)} :
        t[2] \in Range(contracts) /\ t[3] \in Range(contracts)}

Triples(rows) ==
    {<<rows[i].spread_type, rows[i].contract_a, rows[i].contract_b>> : i \in DOMAIN rows}

Generated == pc \in {"generated", "calculated"}

IsScenario == existing_contracts = ScenarioContracts /\ main_months = ScenarioMainMonths

\* C1: the triples generate_all_spreads returns are exactly the rows of the
\* 7-row pairing table, over every inventory contract whose month is a main
\* month, both of whose contracts are in the inventory; in the spec's
\* scenario they include Main-SubMain (I2501, I2505) and PrevMonth-Main
\* (I2412, I2501).
C1_ExactlyThePairingTable ==
    Generated =>
        /\ ~generated.raised
        /\ Triples(generated.df) = ExpectedTriples(existing_contracts, main_months)
        /\ IsScenario =>
              /\ <<"Main-SubMain", I2501, I2505>> \in Triples(generated.df)
              /\ <<"PrevMonth-Main", I2412, I2501>> \in Triples(generated.df)

\* the scenario has run: some candidates were kept and some were discarded
C1_Witness ==
    /\ pc = "generated"
    /\ IsScenario
    /\ <<"Main-SubMain", I2501, I2505>> \in Triples(generated.df)
    /\ <<"Main-NextMonth", I2501, <<"I","2","5","0","2">> >> \notin Triples(generated.df)
    /\ Cardinality(Triples(generated.df)) > 7

\* C2: no two entries of the output of generate_all_spreads have the same
\* (spread_code, spread_type) pair.
C2_UniqueCodeAndType ==
    Generated =>
        \A i, j \in DOMAIN generated.df :
            (/\ generated.df[i].spread_code = generated.df[j].spread_code
             /\ generated.df[i].spread_type = generated.df[j].spread_type) => i = j

\* the same spread was generated more than once and dropped
C2_Witness ==
    /\ pc = "generated"
    /\ LET mains == main_contracts(existing_contracts, main_months)
       IN  Len(all_spreads(mains, Len(mains), existing_contracts, main_months))
               > Len(generated.df)
    /\ generated.df # <<>>

\* C3: neither generate_all_spreads nor calculate_spread_prices raises,
\* whatever the inventory and the price table, also when no definition is
\* left and the result is empty.
C3_MissingContractsAreNotFatal ==
    /\ Generated => ~generated.raised
    /\ pc = "calculated" => ~calculated.raised

\* C4: for each definition both of whose contracts are columns of the price
\* table the column spread_code holds table[contract_a] - table[contract_b]
\* row by row; a definition with a missing contract produces no column; the
\* spec's example gives [2, 2].
C4_ColumnIsAMinusB ==
    (pc = "calculated" /\ ~calculated.raised) =>
        /\ \A i \in DOMAIN generated.df :
              LET r == generated.df[i]
                  result == calculated.result_df
              IN  IF r.contract_a \in DOMAIN price_data.data
                     /\ r.contract_b \in DOMAIN price_data.data
                  THEN /\ r.spread_code \in Range(result.columns)
                       /\ DOMAIN result.data[r.spread_code] = DOMAIN price_data.timestamp
                       /\ \A k \in DOMAIN price_data.timestamp :
                             result.data[r.spread_code][k] =
                                 price_data.data[r.contract_a][k]
                                     - price_data.data[r.contract_b][k]
                  ELSE r.spread_code \notin Range(result.columns)
        /\ (price_data = ExampleTable /\ IsScenario) =>
              calculated.result_df.data[spread_code(I2501, I2505)] = <<2, 2>>

\* the spec's example: I2501-I2505 was computed from [10,11] and [8,9], and the
\* other definitions of the list, which lack a column, were skipped
C4_Witness ==
    /\ pc = "calculated"
    /\ IsScenario
    /\ price_data = ExampleTable
    /\ calculated.result_df.columns = <<TimestampColumn, spread_code(I2501, I2505)>>
    /\ calculated.result_df.data[spread_code(I2501, I2505)] = <<2, 2>>
    /\ Len(generated.df) > 1

\* the definitions of the list both of whose contracts are columns of the table
Computed(rows, table) ==
    SelectSeq(rows, LAMBDA r : /\ r.contract_a \in DOMAIN table.data
                               /\ r.contract_b \in DOMAIN table.data)

\* the output keeps the timestamp column of the price table, as its first column
KeepsTimestamps ==
    /\ calculated.result_df.columns[1] = TimestampColumn
    /\ calculated.result_df.data[TimestampColumn] = price_data.timestamp

\* C5: calculate_spread_prices gives a table that keeps the timestamp column
\* and has one added column for every computed definition, for every spread
\* list, the empty one and one with a repeated spread_code included.
C5_OneColumnPerDefinition ==
    pc = "calculated" =>
        /\ ~calculated.raised
        /\ KeepsTimestamps
        /\ Len(calculated.result_df.columns) - 1
              = Len(Computed(generated.df, price_data))

\* C6: for every code that parses, parsing the formatted result of the parse
\* gives the parse again.
C6_ParseFormatParse ==
    helper.pc = "reparsed" => helper.reparsed = helper.parsed

\* a code in lower case, with a year and a month below 10, went round
C6_Witness ==
    /\ helper.pc = "reparsed"
    /\ helper.contract = <<"z", "I", "0", "9", "0", "1">>
    /\ helper.reparsed = [ok |-> TRUE, symbol |-> <<"Z", "I">>, year |-> 9, month |-> 1]

\* one or more letters followed by four digits, and nothing else
IsPlainCode(c) ==
    /\ Len(c) >= 5
    /\ \A i \in 1..(Len(c) - 4) : IsLetter(c[i])
    /\ \A i \in (Len(c) - 3)..Len(c) : IsDigit(c[i])

\* one or more upper-case letters followed by four of the digits 0-9, and
\* nothing else
IsUpperCode(c) ==
    /\ IsPlainCode(c)
    /\ \A i \in 1..(Len(c) - 4) : \E k \in DOMAIN UpperCase : UpperCase[k] = c[i]
    /\ \A i \in (Len(c) - 3)..Len(c) : IsAsciiDigit(c[i])

\* C7 as stated: formatting the parse of a code of letters, in upper or lower
\* case, and four digits gives the code back character for character.
C7_FormatParseIsIdentity ==
    (helper.pc = "formatted" /\ IsPlainCode(helper.contract)) =>
        helper.formatted = helper.contract

\* the code without the line break that $ lets through at its end
WithoutLineBreak(c) ==
    IF c # <<>> /\ c[Len(c)] = "\n" THEN SubSeq(c, 1, Len(c) - 1) ELSE c

\* C7, amended: formatting the parse of a code made of upper-case letters and
\* four of the digits 0-9 gives the code back character for character; for
\* any other text that parses the result is the text without its final line
\* break, character by character, with every letter in upper case and every
\* digit as the digit 0-9 of the same value.
C7_FormatParseUpperCases ==
    helper.pc = "formatted" =>
        LET c == WithoutLineBreak(helper.contract) IN
        /\ IsUpperCode(helper.contract) => helper.formatted = helper.contract
        /\ Len(helper.formatted) = Len(c)
        /\ \A i \in DOMAIN c :
              \/ /\ IsDigit(c[i])
                 /\ helper.formatted[i] = DigitChars[DigitValue(c[i]) + 1]
              \/ /\ IsLetter(c[i])
                 /\ \E k \in DOMAIN UpperCase :
                       /\ helper.formatted[i] = UpperCase[k]
                       /\ c[i] \in {UpperCase[k], LowerCase[k]}

\* an upper-case code came back unchanged
C7_Witness ==
    /\ helper.pc = "formatted"
    /\ helper.contract = <<"I", "I", "0", "9", "0", "1">>
    /\ helper.formatted = helper.contract

\* C8: shifting a (year, month) by k months and then by -k months gives the
\* (year, month) back.
C8_AdjacentMonthRoundTrip ==
    helper.pc = "shifted_back" =>
        /\ helper.back.year = helper.year
        /\ helper.back.month = helper.month

\* a shift back over more than one year boundary, into a negative year
C8_Witness ==
    /\ helper.pc = "shifted_back"
    /\ helper.year = 0
    /\ helper.month = 3
    /\ helper.offset = -MaxOffset
    /\ helper.shifted.year < -1
    /\ helper.back = [year |-> 0, month |-> 3]

\* C9: the result of get_adjacent_month has its month in 1..12 and lies
\* offset months from the input on the line year*12 + (month-1); one month
\* before January of year 0 the formatted 2-digit year is 99.
C9_AdjacentMonthIsLinear ==
    helper.pc = "shifted" =>
        /\ helper.shifted.month \in 1..12
        /\ helper.shifted.year * 12 + (helper.shifted.month - 1)
              = helper.year * 12 + (helper.month - 1) + helper.offset
        /\ (helper.year = 0 /\ helper.month = 1 /\ helper.offset = -1) =>
              format_contract(<<"I">>, helper.shifted.year, helper.shifted.month) = I9912

\* one month before January of year 0
C9_Witness ==
    /\ helper.pc = "shifted"
    /\ helper.year = 0
    /\ helper.month = 1
    /\ helper.offset = -1
    /\ helper.shifted = [year |-> -1, month |-> 12]

\* C10: for a month of the cycle get_next_main returns the cyclically-next
\* main month, in the next year exactly when that month is smaller than the
\* input month; (2024,1,{1,5,9}) gives (2024,5) and (2024,9,{1,5,9}) gives
\* (2025,1).
C10_NextMainIsCyclicNext ==
    (helper.pc = "next_main" /\ helper.month \in helper.months) =>
        /\ helper.next.ok
        /\ helper.next.month = CyclicNext(helper.month, helper.months)
        /\ helper.next.year = helper.year + 1 <=> helper.next.month < helper.month
        /\ helper.next.year = helper.year <=> helper.next.month >= helper.month
        /\ (helper.year = 2024 /\ helper.month = 1 /\ helper.months = {1, 5, 9}) =>
              (helper.next.year = 2024 /\ helper.next.month = 5)
        /\ (helper.year = 2024 /\ helper.month = 9 /\ helper.months = {1, 5, 9}) =>
              (helper.next.year = 2025 /\ helper.next.month = 1)

\* the cycle wrapped from September 2024 to January 2025
C10_Witness ==
    /\ helper.pc = "next_main"
    /\ helper.year = 2024
    /\ helper.month = 9
    /\ helper.months = {1, 5, 9}
    /\ helper.next = [ok |-> TRUE, year |-> 2025, month |-> 1]

\* the (year, month) pairs the second loop passes to get_next_main: the main
\* contract's own and, when that call returned, the next main's
NextMainCalls(contracts, months) ==
    LET mains == main_contracts(contracts, months) IN
    UNION {LET p  == parse_contract(mains[i])
               nm == get_next_main(p.year, p.month, months)
           IN  {<<p.year, p.month>>}
               \cup (IF nm.ok THEN {<<nm.year, nm.month>>} ELSE {}) :
           i \in DOMAIN mains}

\* C11: get_next_main fails with the not-in-cycle error for every month that
\* is not a member of the main months and for no member; every call the
\* generator makes passes a member, so generate_all_spreads never raises.
C11_NextMainFailsOnlyOffCycle ==
    Generated =>
        /\ \A y \in TestYears, m \in 1..12 :
              get_next_main(y, m, main_months).ok <=> m \in main_months
        /\ \A call \in NextMainCalls(existing_contracts, main_months) :
              /\ call[2] \in main_months
              /\ get_next_main(call[1], call[2], main_months).ok
        /\ ~generated.raised

\* the generator ran on an inventory with a main contract and a well-formed
\* contract of a month outside the cycle
C11_Witness ==
    /\ Generated
    /\ NextMainCalls(existing_contracts, main_months) # {}
    /\ \E c \in Range(existing_contracts) :
          parse_contract(c).ok /\ parse_contract(c).month \notin main_months
    /\ ~generated.raised

\* the inventory without the codes that are not letters + 4 digits
WithoutMalformed(contracts) == SelectSeq(contracts, IsPlainCode)

\* C12: a malformed code in the inventory is skipped: generate_all_spreads
\* does not fail and returns exactly the definitions it returns for the
\* inventory without the malformed codes.
C12_MalformedCodeIsSkipped ==
    Generated =>
        /\ ~generated.raised
        /\ generated.df =
              generate_all_spreads(WithoutMalformed(existing_contracts), main_months).df

\* the generator ran on an inventory with a malformed code and returned
\* definitions
C12_Witness ==
    /\ Generated
    /\ \E c \in Range(existing_contracts) : ~IsPlainCode(c)
    /\ ~generated.raised
    /\ generated.df # <<>>

\* main is past its loading loop
MainLoaded == pc \in {"loaded", "returned", "aligned", "ranged", "done"}

\* main is past an alignment
MainAligned == pc \in {"aligned", "ranged", "done"}

\* the datetime column of a series
TimestampsOf(df) == [i \in DOMAIN df |-> df[i].datetime]

IsAscending(seq) == \A i, j \in DOMAIN seq : i < j => seq[i] < seq[j]

IsNonDecreasing(seq) == \A i, j \in DOMAIN seq : i < j => seq[i] <= seq[j]

\* the instants that occur in every series of the mapping
InEverySeries(dict) ==
    {t \in UNION {Range(TimestampsOf(dict[k])) : k \in DOMAIN dict} :
        \A k \in DOMAIN dict : \E i \in DOMAIN dict[k] : dict[k][i].datetime = t}

\* C13: find_common_timeframe returns, ascending and without repeats,
\* exactly the timestamps present in every series of the mapping: the empty
\* sequence for an empty mapping and, for a single series, that series' own
\* timestamps; it is what main uses after its first pass.
C13_CommonTimeframeIsSortedIntersection ==
    MainLoaded =>
        LET common == find_common_timeframe(data_dict) IN
        /\ IsAscending(common)
        /\ DOMAIN data_dict = {} => common = <<>>
        /\ DOMAIN data_dict # {} => Range(common) = InEverySeries(data_dict)
        /\ \A k \in DOMAIN data_dict :
              DOMAIN data_dict = {k} => Range(common) = Range(TimestampsOf(data_dict[k]))
        /\ pc = "aligned" => common_times = common

\* two series were intersected: one repeats a timestamp and has a timestamp
\* the other lacks
C13_Witness ==
    /\ pc = "aligned"
    /\ DOMAIN data_dict = {"A", "B"}
    /\ TimestampsOf(data_dict["A"]) = <<86400, 86400>>
    /\ TimestampsOf(data_dict["B"]) = <<82800, 86400>>
    /\ common_times = <<86400>>

\* C14: with two loaded series, the rows of a series kept by the first
\* alignment are at most as many as the rows of the shorter loaded series.
C14_AlignedNoLongerThanEither ==
    (pc = "aligned" /\ DOMAIN data_dict = {"A", "B"}) =>
        \A var \in {"A", "B"} :
            /\ Len(aligned_data[var]) <= Len(data_dict["A"])
            /\ Len(aligned_data[var]) <= Len(data_dict["B"])

\* C15: after an alignment (the first pass, and the second pass of the date
\* range) all aligned series have the same timestamp sequence.
C15_IdenticalTimestampSequences ==
    MainAligned =>
        \A v, w \in DOMAIN aligned_data :
            TimestampsOf(aligned_data[v]) = TimestampsOf(aligned_data[w])

\* C16: after an alignment no aligned series has two rows with the same
\* timestamp.
C16_NoRepeatedTimestampAfterAlignment ==
    MainAligned =>
        \A v \in DOMAIN aligned_data :
            \A i, j \in DOMAIN aligned_data[v] :
                aligned_data[v][i].datetime = aligned_data[v][j].datetime => i = j

\* C17: a series the loader returned has its timestamps in non-decreasing
\* order.
C17_LoadedSeriesIsNonDecreasing ==
    MainLoaded =>
        \A var \in formula_vars :
            LET loaded == load_market_data(data_files[var]) IN
            loaded.ok =>
                /\ IsNonDecreasing(TimestampsOf(loaded.df))
                /\ IsNonDecreasing(TimestampsOf(data_dict[var]))

\* the rows of the file whose datetime text is a date
Parseable(file) == {i \in DOMAIN file.rows : to_datetime(file.rows[i].datetime) # NaT}

\* the i-th smallest member of a set of numbers
Nth(S, i) == CHOOSE x \in S : Cardinality({y \in S : y <= x}) = i

\* C18: a loaded series has no null timestamp: it is the rows of the file
\* whose timestamp parses, in file order, those with a missing price
\* included; a file none of whose timestamps parses is not loaded at all.
C18_NoNullTimestampAfterLoad ==
    MainLoaded =>
        \A var \in formula_vars :
            LET file   == data_files[var]
                loaded == load_market_data(file)
                rows   == Parseable(file)
            IN  /\ rows = {} => (~loaded.ok /\ var \notin DOMAIN data_dict)
                /\ (rows # {} /\ file.ext = ".csv") =>
                      /\ loaded.ok
                      /\ var \in DOMAIN data_dict
                      /\ Len(loaded.df) = Cardinality(rows)
                      /\ Len(data_dict[var]) = Cardinality(rows)
                      /\ \A i \in DOMAIN loaded.df :
                            /\ <<loaded.df[i].datetime>> =
                                  to_datetime(file.rows[Nth(rows, i)].datetime)
                            /\ loaded.df[i].close = file.rows[Nth(rows, i)].close
                            /\ data_dict[var][i].close = loaded.df[i].close
                            /\ data_dict[var][i].datetime =
                                  loaded.df[i].datetime + 3600 * time_offsets[var]

\* A was loaded from a file with a row whose timestamp does not parse and a
\* row whose price is missing; no timestamp of B's file parses
C18_Witness ==
    /\ MainLoaded
    /\ formula_vars = {"A", "B"}
    /\ data_files["A"].rows = <<[datetime |-> "n/a", close |-> <<3>>],
                               [datetime |-> "2024-01-01 23:00", close |-> NaN]>>
    /\ data_files["B"].rows = <<[datetime |-> "n/a", close |-> <<3>>]>>
    /\ time_offsets["A"] = 0
    /\ DOMAIN data_dict = {"A"}
    /\ data_dict["A"] = <<[datetime |-> 82800, close |-> NaN]>>

\* C19: when main computes the common timestamps every loaded series has
\* had both its timezone offset and the resampling to the chosen frequency
\* applied.
C19_ShiftedAndResampledBeforeIntersection ==
    MainLoaded =>
        \A var \in DOMAIN data_dict :
            data_dict[var] =
                resample_data(align_timezone(load_market_data(data_files[var]).df,
                                             time_offsets[var]),
                              freq_input)

\* the first second of the day of a date, and the last
DayStart(date) == to_datetime(date)[1]

DayEnd(date) == (to_datetime(date)[1] \div 86400) * 86400 + 86399

\* inside the range of the dates entered
InRequestedRange(t) ==
    /\ start_date # "" => t >= DayStart(start_date)
    /\ end_date # "" => t <= DayEnd(end_date)

\* C20: when a date range was entered, the common timestamps main ends with
\* are found again from the filtered series: they are the first pass's
\* common timestamps that lie in the range from the start date to the end
\* of the end date, ascending, and every aligned series has exactly them.
C20_SecondPassRecomputes ==
    (pc = "ranged" /\ (start_date # "" \/ end_date # "")) =>
        /\ IsAscending(common_times)
        /\ Range(common_times) =
              {t \in InEverySeries(data_dict) : InRequestedRange(t)}
        /\ \A i \in DOMAIN common_times : InRequestedRange(common_times[i])
        /\ Range(common_times) \subseteq InEverySeries(data_dict)
        /\ \A var \in DOMAIN aligned_data :
              Range(TimestampsOf(aligned_data[var])) = Range(common_times)

\* the end date cut a first-pass common timestamp off
C20_Witness ==
    /\ pc = "ranged"
    /\ start_date = ""
    /\ end_date = "2024-01-01"
    /\ DOMAIN data_dict = {"A", "B"}
    /\ InEverySeries(data_dict) = {82800, 86400}
    /\ common_times = <<82800>>

\* C26: align_timezone returns the series shifted by the offset and leaves
\* the series passed in as it was, so the loader's result still holds its
\* own timestamps after the timezone step.
C26_AlignTimezoneLeavesInputUnchanged ==
    MainLoaded =>
        \A var \in DOMAIN data_dict :
            LET loaded == load_market_data(data_files[var]).df IN
            /\ \A i \in DOMAIN loaded :
                  data_dict[var][i].datetime =
                      loaded[i].datetime + 3600 * time_offsets[var]
            /\ result_dfs[var] = loaded

\* the number of a close cell
Num(cell) == IF cell = NaN THEN NaN ELSE <<cell[1], 1>>

\* the closes of a variable of a direct call, as numbers
CallArray(var) ==
    [i \in DOMAIN direct_call.data[var] |-> Num(direct_call.data[var][i].close)]

\* the variables of the formula of a direct call have data
CallIsComplete == parse_formula(direct_call.formula) \subseteq DOMAIN direct_call.data

\* C23: calculate_spread fails whenever two variables of the formula have
\* arrays of different lengths, a length of 1 included.
C23_DifferentLengthsFail ==
    (/\ direct_call.pc = "evaluated"
     /\ CallIsComplete
     /\ {"A", "B"} \subseteq parse_formula(direct_call.formula)
     /\ Len(direct_call.data["A"]) # Len(direct_call.data["B"])) =>
        ~direct_call.result.ok

\* the arithmetic formulas of the direct calls, each written out for one
\* element a of A and b of B with its precedence made explicit
PointValue(f, a, b) ==
    CASE f = <<"A", "-", "B">> -> NumpyArith("-", a, b)
      [] f = <<"2", "*", "A">> -> NumpyArith("*", <<2, 1>>, a)
      [] f = <<"A", "+", "B", "*", "2">> ->
            NumpyArith("+", a, NumpyArith("*", b, <<2, 1>>))
      [] f = <<"(", "A", "+", "B", ")", "*", "2">> ->
            NumpyArith("*", NumpyArith("+", a, b), <<2, 1>>)
      [] f = <<"A", "-", "2", ".", "5", "*", "B">> ->
            NumpyArith("-", a, NumpyArith("*", <<5, 2>>, b))
      [] f = <<"A", "/", "2">> -> NumpyArith("/", a, <<2, 1>>)
      [] f = <<"-", "A", "/", "B">> ->
            NumpyArith("/", Neg(a), b)
      [] f = <<"A", "-", "B", "-", "A">> ->
            NumpyArith("-", NumpyArith("-", a, b), a)
      [] f = <<"A", " ", "-", " ", "B">> -> NumpyArith("-", a, b)

ArithmeticFormulas ==
    {<<"A", "-", "B">>, <<"2", "*", "A">>, <<"A", "+", "B", "*", "2">>,
     <<"(", "A", "+", "B", ")", "*", "2">>, <<"A", "-", "2", ".", "5", "*", "B">>,
     <<"A", "/", "2">>, <<"-", "A", "/", "B">>, <<"A", "-", "B", "-", "A">>,
     <<"A", " ", "-", " ", "B">>}

\* C24: on arrays of equal length calculate_spread returns the array whose
\* i-th element is the formula applied, with the standard precedence, to
\* the i-th elements of its variables; {A:[1,2,3], B:[4,5,6]} with A-B gives
\* [-3,-3,-3] and {A:[2]} with 2*A gives [4].
C24_ElementWiseEvaluation ==
    (/\ direct_call.pc = "evaluated"
     /\ direct_call.formula \in ArithmeticFormulas
     /\ CallIsComplete
     /\ \A v, w \in parse_formula(direct_call.formula) :
           Len(direct_call.data[v]) = Len(direct_call.data[w])) =>
        LET f == direct_call.formula
            a == CallArray("A")
            two == "B" \in parse_formula(f)
        IN  /\ direct_call.result.ok
            /\ direct_call.result.array
            /\ Len(direct_call.result.v) = Len(a)
            /\ \A i \in DOMAIN a :
                  direct_call.result.v[i] =
                      PointValue(f, a[i], IF two THEN CallArray("B")[i] ELSE NaN)
            /\ (direct_call.data = ExamplePair /\ f = <<"A", "-", "B">>) =>
                  direct_call.result.v = << <<-3, 1>>, <<-3, 1>>, <<-3, 1>> >>
            /\ (direct_call.data = ExampleSingle /\ f = <<"2", "*", "A">>) =>
                  direct_call.result.v = << <<4, 1>> >>

\* A + B*2 on the example arrays: [1+8, 2+10, 3+12]
C24_Witness ==
    /\ direct_call.pc = "evaluated"
    /\ direct_call.data = ExamplePair
    /\ direct_call.formula = <<"A", "+", "B", "*", "2">>
    /\ direct_call.result.ok
    /\ direct_call.result.v = << <<9, 1>>, <<12, 1>>, <<15, 1>> >>

\* a formula of single upper-case letters, + - * / ( ) and decimal literals
IsArithmeticText(f) ==
    \A i \in DOMAIN f :
        \/ f[i] \in {"+", "-", "*", "/", "(", ")", " "}
        \/ IsAsciiDigit(f[i])
        \/ /\ f[i] = "."
           /\ \/ i > 1 /\ IsAsciiDigit(f[i - 1])
              \/ i < Len(f) /\ IsAsciiDigit(f[i + 1])
        \/ /\ \E k \in DOMAIN UpperCase : UpperCase[k] = f[i]
           /\ i = 1 \/ ~(IsLetter(f[i - 1]) \/ f[i - 1] = ".")
           /\ i = Len(f) \/ ~IsLetter(f[i + 1])

\* C25: a formula with a token other than a single upper-case letter,
\* + - * / ( ) or a decimal literal is rejected, not evaluated.
C25_OnlyArithmeticIsEvaluated ==
    (direct_call.pc = "evaluated" /\ ~IsArithmeticText(direct_call.formula)) =>
        ~direct_call.result.ok

\* the calculation step of main has run
MainDone == pc = "done"

\* the formula applied to the closes a row of the result table shows
RowValue(row) == eval(formula, [var \in DOMAIN row.close |-> Scalar(Num(row.close[var]), "np")])

\* C30: in the result table main saves, the spread of every row is the
\* formula applied to the prices the variables have at the row's timestamp.
C30_SpreadIsPointAligned ==
    (MainDone /\ spread_run.saved) =>
        \A i \in DOMAIN spread_run.table :
            LET row == spread_run.table[i] IN
            /\ \A var \in formula_vars :
                  \E k \in DOMAIN data_dict[var] :
                      /\ data_dict[var][k].datetime = row.datetime
                      /\ data_dict[var][k].close = row.close[var]
            /\ row.spread = RowValue(row).v

\* C21: an empty common timeframe never reaches calculate_spread: when the
\* intersection is empty after the first alignment or after the date-range
\* pass, main ends without calling calculate_spread and without a result.
C21_EmptyIntersectionIsNotEvaluated ==
    /\ (MainLoaded /\ common_times = <<>>) =>
          (~spread_run.called /\ ~spread_run.saved)
    /\ (pc = "returned" /\ DOMAIN data_dict # {}) => InEverySeries(data_dict) = {}
    /\ spread_run.called => common_times # <<>>

\* the date range emptied a first-pass intersection that was not empty, and
\* the calculation step did nothing
C21_Witness ==
    /\ MainDone
    /\ InEverySeries(data_dict) # {}
    /\ common_times = <<>>
    /\ ~spread_run.called
    /\ ~spread_run.saved

\* the variables whose file loads
Loadable == {var \in formula_vars : load_market_data(data_files[var]).ok}

\* main has ended
MainEnded == pc \in {"returned", "done"}

\* C22 as stated: main ends without a result, nothing having been raised by
\* the calculation, only when no variable was loaded or there is no common
\* timestamp.
C22_FailsOnlyWithoutDataOrCommonTimes ==
    (MainEnded /\ ~spread_run.saved /\ ~spread_run.raised) =>
        (DOMAIN data_dict = {} \/ common_times = <<>>)

\* C22, amended: a variable whose file fails to load is left out of
\* data_dict and of the aligned set, the others are loaded and aligned as
\* they are without it, and main returns early only when nothing was loaded
\* or nothing is common; but the spread is calculated only when every
\* variable of the formula was loaded.
C22_LoadFailuresAreIsolated ==
    /\ MainLoaded =>
          /\ DOMAIN data_dict = Loadable
          /\ \A var \in Loadable :
                data_dict[var] =
                    align_timezone(load_market_data(data_files[var]).df, time_offsets[var])
    /\ MainAligned => DOMAIN aligned_data = Loadable
    /\ pc = "returned" => (Loadable = {} \/ InEverySeries(data_dict) = {})
    /\ (MainLoaded /\ Loadable # formula_vars) => spread_run = NotCalculated
    /\ (MainDone /\ ~spread_run.called) =>
          (Loadable # formula_vars \/ common_times = <<>>)

\* B's file has an unsupported format: A was loaded and aligned alone, and
\* the calculation step did nothing although there are common timestamps
C22_Witness ==
    /\ MainDone
    /\ formula_vars = {"A", "B"}
    /\ data_files["B"].ext = ".xls"
    /\ DOMAIN aligned_data = {"A"}
    /\ common_times # <<>>
    /\ ~spread_run.called
    /\ ~spread_run.saved

\* the rows of the series of a direct call of a date filter that satisfy P
CallRows(P(_)) == SelectSeq(direct_call.df, LAMBDA r : P(r.datetime))

\* the rows a direct call of a date filter kept
CallKept == IF direct_call.result.ok THEN direct_call.result.df ELSE <<>>

\* C27 as stated: the date filter keeps exactly the rows with
\* start <= t < end.
C27_HalfOpenRange ==
    direct_call.pc = "filtered" =>
        CallKept =
            CallRows(LAMBDA t :
                /\ direct_call.start # "" => t >= to_datetime(direct_call.start)[1]
                /\ direct_call.end # "" => t < to_datetime(direct_call.end)[1])

\* C27, amended: the date filter keeps exactly the rows with
\* start <= t <= end, the end bound being 23:59:59 of the day of the end
\* date in main and the end date and time itself in goldspread, where an
\* empty result is an error.
C27_ClosedRange ==
    direct_call.pc = "filtered" =>
        LET last == IF direct_call.end = "" THEN 0
                    ELSE IF direct_call.by = "main"
                    THEN (to_datetime(direct_call.end)[1] \div 86400) * 86400 + 86399
                    ELSE to_datetime(direct_call.end)[1]
            rows == CallRows(LAMBDA t :
                        /\ direct_call.start # "" => t >= to_datetime(direct_call.start)[1]
                        /\ direct_call.end # "" => t <= last)
        IN  /\ CallKept = rows
            /\ direct_call.result.ok <=> (direct_call.by = "main" \/ rows # <<>>)

\* main kept a row stamped 23:00 of the end date
C27_Witness ==
    /\ direct_call.pc = "filtered"
    /\ direct_call.by = "main"
    /\ direct_call.end = "2024-01-01"
    /\ \E i \in DOMAIN direct_call.df : direct_call.df[i].datetime = 82800
    /\ \E i \in DOMAIN direct_call.result.df : direct_call.result.df[i].datetime = 82800

\* the fixed order of the spread types
TypeOrder ==
    <<"Main-SubMain", "Main-SubSubMain", "PrevMonth-Main", "Main-NextMonth",
      "Main-NextNextMonth", "Main-SubMainPrevMonth", "PrevPrevMonth-Main">>

TypeRank(type) == CHOOSE k \in DOMAIN TypeOrder : TypeOrder[k] = type

\* the first position of a contract in the inventory
FirstIndex(c, contracts) == Min({i \in DOMAIN contracts : contracts[i] = c})

\* C28: the rows generate_all_spreads returns are ordered by the first
\* position of their main contract in the inventory and, for one main
\* contract, by the fixed order of the spread types; no row comes twice.
C28_OutputOrder ==
    Generated =>
        \A i, j \in DOMAIN generated.df :
            i < j =>
                LET a  == generated.df[i]
                    b  == generated.df[j]
                    ia == FirstIndex(a.main_contract, existing_contracts)
                    ib == FirstIndex(b.main_contract, existing_contracts)
                IN  \/ ia < ib
                    \/ ia = ib /\ TypeRank(a.spread_type) < TypeRank(b.spread_type)

\* rows of two main contracts, the first of which is twice in the inventory
C28_Witness ==
    /\ Generated
    /\ Len(generated.df) >= 3
    /\ \E i \in DOMAIN generated.df :
          generated.df[i].main_contract # generated.df[1].main_contract
    /\ \E i, k \in DOMAIN existing_contracts :
          /\ i # k
          /\ existing_contracts[i] = generated.df[1].main_contract
          /\ existing_contracts[k] = generated.df[1].main_contract

\* C29: with main months, get_next_main returns a (year, month) strictly
\* later than its input, and no definition generate_all_spreads returns
\* has contract_a equal to contract_b.
C29_NoSelfPair ==
    (Generated /\ main_months # {}) =>
        /\ \A y \in TestYears, m \in main_months :
              LET next == get_next_main(y, m, main_months) IN
              next.year * 12 + next.month > y * 12 + m
        /\ \A i \in DOMAIN generated.df :
              generated.df[i].contract_a # generated.df[i].contract_b

====
